---- MODULE Spec2Model ----
(***************************************************************************)
(* Aggregation + caching engine of dev-asterix/portfolio:                  *)
(*   src/src/lib/githubCache.ts     the TTL cache (GitHubCache)            *)
(*   src/src/lib/github.ts          the remote data client                 *)
(*   src/src/store/useKernelStore.ts  enrichment and the orchestrator      *)
(*                                                                         *)
(* Conventions.                                                            *)
(*  - Time.  Date.now() is modelled in whole seconds: every duration of    *)
(*    the source is a multiple of 1000 ms and is written here divided by   *)
(*    1000 (TLC's integers are 32 bits wide; 90 days of milliseconds do    *)
(*    not fit).                                                            *)
(*  - Strings that take part in key derivation are sequences of one-       *)
(*    character strings, so that concatenation, join and startsWith are    *)
(*    computed as the code computes them.                                  *)
(*  - A nullable value is None (<<>>) or Some(v) (<<v>>).                  *)
(***************************************************************************)
EXTENDS Integers, Sequences, FiniteSets, TLC

VARIABLES
  cache,      \* GitHubCache.cache: key -> CacheEntry (a function; its DOMAIN is the resident keys)
  now,        \* Date.now(), in seconds
  ticks,      \* number of clock advances so far (bounds the model)
  sweepDue,   \* whether the setInterval cleanup timer has come due and not yet run
  sets,       \* number of cache writes issued by the cache's direct users (bounds the model)
  lastOp,     \* what the get or getStats that ran last returned (NoOp once anything else has happened)
  written,    \* history: key -> the most recent set on it that no invalidate/clear has removed
  unswept,    \* history: the map the same calls would have left had the cleanup timer never fired
  client,     \* one invocation of a Remote Data Client operation (github.ts)
  pure,       \* inputs and results of the enrichment functions applied on their own
  calls,      \* caller -> its invocation of fetchAllReposEnriched / fetchRepoDetails, if any
  started     \* number of orchestrator invocations started so far (bounds the model)

cacheVars == <<cache, now, ticks, sweepDue, sets, lastOp, written, unswept>>
orchVars == <<calls, started>>
outsideCache == <<client, pure, orchVars>>
vars == <<cacheVars, outsideCache>>

None == <<>>
Some(v) == <<v>>

(***************************************************************************)
(* Bounds of the model.                                                    *)
(***************************************************************************)
MaxTicks == 2
MaxSets == 2
MaxWeeks == 14
MaxCalls == 3
MaxRepos == 3
MaxGraphWeeks == 28

(***************************************************************************)
(* githubCache.ts                                                          *)
(***************************************************************************)

\* TTLs table (lines 19-31), in seconds.
TTLs ==
  [ REPOS          |-> 1 * 60 * 60,
    REPO_DETAILS   |-> 30 * 60,
    COMMITS        |-> 30 * 60,
    ACTIVITY       |-> 2 * 60 * 60,
    CODE_FREQUENCY |-> 2 * 60 * 60,
    TREE           |-> 1 * 60 * 60,
    FILE_CONTENT   |-> 30 * 60,
    ISSUES         |-> 15 * 60,
    PRS            |-> 15 * 60,
    RELEASES       |-> 1 * 60 * 60,
    LANGUAGES      |-> 1 * 60 * 60 ]

\* setInterval(() => this.cleanup(), 10 * 60 * 1000)
SweepPeriod == 10 * 60

\* Array.prototype.join(sep) on a sequence of strings.
RECURSIVE Join(_, _)
Join(args, sep) ==
  IF Len(args) = 0 THEN <<>>
  ELSE IF Len(args) = 1 THEN args[1]
  ELSE args[1] \o sep \o Join(Tail(args), sep)

\* `${namespace}:${args.join(':')}`
generateKey(namespace, args) == namespace \o <<":">> \o Join(args, <<":">>)

\* An expiry test that already expires an entry at the age of exactly its TTL.
isExpiredInclusive(entry, t) == t - entry.timestamp >= entry.ttl

\* Date.now() - entry.timestamp > entry.ttl
isExpired(entry, t) == t - entry.timestamp > entry.ttl

\* String.prototype.startsWith
startsWith(s, p) == Len(p) <= Len(s) /\ SubSeq(s, 1, Len(p)) = p

\* Map.prototype.delete
MapDelete(m, key) == [k \in DOMAIN m \ {key} |-> m[k]]

\* Map.prototype.set
MapSet(m, key, e) == [k \in DOMAIN m \cup {key} |-> IF k = key THEN e ELSE m[k]]

\* A get that already answers null at the age of exactly the TTL.
GetResultAbsentAtTtl(m, key, t) ==
  IF key \notin DOMAIN m THEN None
  ELSE IF t - m[key].timestamp >= m[key].ttl THEN None
  ELSE Some(m[key].data)

\* get: the value returned (lines 54-65)
GetResult(m, key, t) ==
  IF key \notin DOMAIN m THEN None
  ELSE IF isExpired(m[key], t) THEN None
  ELSE Some(m[key].data)

\* A get that forgets to evict an expired entry.
GetMapKeepsExpired(m, key, t) == m

\* get: the map it leaves behind (an expired entry is deleted on the read)
GetMap(m, key, t) ==
  IF key \in DOMAIN m /\ isExpired(m[key], t) THEN MapDelete(m, key) ELSE m

\* A set that leaves a resident entry alone (first write wins).
SetMapIfAbsent(m, key, ttlKey, data, t) ==
  IF key \in DOMAIN m THEN m
  ELSE MapSet(m, key, [data |-> data, timestamp |-> t, ttl |-> TTLs[ttlKey]])

\* set (lines 68-77)
SetMap(m, key, ttlKey, data, t) ==
  MapSet(m, key, [data |-> data, timestamp |-> t, ttl |-> TTLs[ttlKey]])

\* invalidate (lines 80-83)
InvalidateMap(m, key) == MapDelete(m, key)

\* An invalidatePattern that removes the entries of the namespace p and of no other.
InvalidatePatternMapOneNamespace(m, p) ==
  [k \in {x \in DOMAIN m : ~startsWith(x, p \o <<":">>)} |-> m[k]]

\* invalidatePattern (lines 86-92)
InvalidatePatternMap(m, p) == [k \in {x \in DOMAIN m : ~startsWith(x, p)} |-> m[k]]

\* clear (lines 95-97)
ClearMap == <<>>

\* A cleanup that already removes an entry at the age of exactly its TTL.
CleanupMapRemovesAtTtl(m, t) ==
  [k \in {x \in DOMAIN m : t - m[x].timestamp < m[x].ttl} |-> m[k]]

\* cleanup (lines 100-111)
CleanupMap(m, t) == [k \in {x \in DOMAIN m : ~isExpired(m[x], t)} |-> m[k]]

\* getStats (lines 114-124)
getStats(m, t) ==
  [ size    |-> Cardinality(DOMAIN m),
    entries |-> { [ key |-> k, age |-> t - m[k].timestamp, ttl |-> m[k].ttl,
                    expired |-> isExpired(m[k], t) ] : k \in DOMAIN m } ]

NoOp == [op |-> "none", key |-> <<>>, val |-> None]

\* Nothing has been applied yet.
PureIdle ==
  [ days |-> 0, archived |-> FALSE, status |-> "unset", activity |-> <<>>,
    velocityList |-> -1, velocityDetails |-> -1, repos |-> <<>>, metrics |-> [t |-> "null"],
    pattern |-> 0, graph |-> [t |-> "null"], graphOf |-> "none", graphAt |-> 0 ]

\* The request handlers that may be running at the same time.
Callers == { "c1", "c2" }

\* No invocation of the orchestrator is running for this caller.
CallIdle ==
  [ pc |-> "idle", op |-> "none", key |-> <<>>, hit |-> FALSE, requests |-> 0,
    wrote |-> FALSE, order |-> 0, seen |-> 0, fin |-> 0, doneAt |-> 0, threw |-> FALSE,
    lookup |-> -1, answers |-> <<>>, work |-> [t |-> "null"], result |-> [t |-> "null"],
    metrics |-> [t |-> "null"], at |-> -1, slots |-> <<>>, settled |-> <<>> ]

InitOrchVars ==
  /\ calls = [c \in Callers |-> CallIdle]
  /\ started = 0

\* The state after module load: the singleton cache is constructed, nothing is in flight.
InitCacheVars ==
  /\ cache = <<>>
  /\ now = 0
  /\ ticks = 0
  /\ sweepDue = FALSE
  /\ sets = 0
  /\ lastOp = NoOp
  /\ written = <<>>
  /\ unswept = <<>>

(***************************************************************************)
(* github.ts: the Remote Data Client                                       *)
(*                                                                         *)
(* JavaScript values are tagged records: Null, Arr(sequence), Obj(record), *)
(* Str(sequence of characters).  An upstream answer is either a rejected   *)
(* fetch (kind "throw": a transport failure) or a response with a status   *)
(* and a body; a body has a text and, when it is valid JSON, a value.      *)
(* What an operation does with an answer is its outcome: it returns a      *)
(* value, it sleeps and re-issues the request (tag "retry"), or an         *)
(* exception escapes to its caller (tag "throw").                          *)
(***************************************************************************)
Null == [t |-> "null"]
Arr(s) == [t |-> "array", v |-> s]
Obj(r) == [t |-> "object", v |-> r]
Str(s) == [t |-> "string", v |-> s]

\* JavaScript truthiness of the values above: null, undefined and "" are falsy, arrays and
\* objects truthy.
Truthy(x) == x.t \notin {"null", "undefined"} /\ (x.t = "string" => x.v # <<>>)

Return(v) == [tag |-> "return", value |-> v]
Retry == [tag |-> "retry", value |-> Null]
Throw == [tag |-> "throw", value |-> Null]

\* Response.ok: the status is in the range 200-299.
ResOk(status) == status >= 200 /\ status <= 299

\* A fetchRepos that lets its failures escape instead of answering [].
fetchReposThrowsOnFailure(ans) ==
  IF ans.kind = "throw" THEN Throw
  ELSE IF ~ResOk(ans.status) THEN Throw
  ELSE IF ~ans.body.valid THEN Throw
  ELSE Return(ans.body.value)

\* fetchRepos (lines 33-46)
fetchRepos(ans) ==
  IF ans.kind = "throw" THEN Return(Arr(<<>>))
  ELSE IF ~ResOk(ans.status) THEN Return(Arr(<<>>))
  ELSE IF ~ans.body.valid THEN Return(Arr(<<>>))
  ELSE Return(ans.body.value)

\* A fetchRepo that answers null only to 404 and lets every other failure escape.
fetchRepoThrowsOnFailure(ans) ==
  IF ans.kind = "throw" THEN Throw
  ELSE IF ~ResOk(ans.status) THEN
    IF ans.status = 404 THEN Return(Null) ELSE Throw
  ELSE IF ~ans.body.valid THEN Throw
  ELSE Return(ans.body.value)

\* fetchRepo (lines 48-61)
fetchRepo(ans) ==
  IF ans.kind = "throw" THEN Return(Null)
  ELSE IF ~ResOk(ans.status) THEN
    IF ans.status = 404 THEN Return(Null) ELSE Return(Null)
  ELSE IF ~ans.body.valid THEN Return(Null)
  ELSE Return(ans.body.value)

\* fetchReadme (lines 63-82)
fetchReadme(ans) ==
  IF ans.kind = "throw" THEN Return(Null)
  ELSE IF ~ResOk(ans.status) THEN
    IF ans.status = 404 THEN Return(Null) ELSE Return(Null)
  ELSE Return(Str(ans.body.text))

\* fetchCommits (lines 96-108)
fetchCommits(ans) ==
  IF ans.kind = "throw" THEN Return(Arr(<<>>))
  ELSE IF ~ResOk(ans.status) THEN Return(Arr(<<>>))
  ELSE IF ~ans.body.valid THEN Return(Arr(<<>>))
  ELSE Return(ans.body.value)

\* fetchLanguages (lines 110-122)
fetchLanguages(ans) ==
  IF ans.kind = "throw" THEN Return(Obj(<<>>))
  ELSE IF ~ResOk(ans.status) THEN Return(Obj(<<>>))
  ELSE IF ~ans.body.valid THEN Return(Obj(<<>>))
  ELSE Return(ans.body.value)

\* fetchCommitActivity (lines 131-149)
fetchCommitActivity(ans, retries) ==
  IF ans.kind = "throw" THEN Return(Arr(<<>>))
  ELSE IF ~ResOk(ans.status) THEN
    IF ans.status = 202 /\ retries > 0 THEN Retry ELSE Return(Arr(<<>>))
  ELSE IF ~ans.body.valid THEN Return(Arr(<<>>))
  ELSE IF ans.body.value.t = "array" THEN Return(ans.body.value)
  ELSE Return(Arr(<<>>))

\* fetchCodeFrequency (lines 157-174)
fetchCodeFrequency(ans, retries) ==
  IF ans.kind = "throw" THEN Return(Arr(<<>>))
  ELSE IF ~ResOk(ans.status) THEN
    IF ans.status = 202 /\ retries > 0 THEN Retry ELSE Return(Arr(<<>>))
  ELSE IF ~ans.body.valid THEN Return(Arr(<<>>))
  ELSE IF ans.body.value.t = "array" THEN Return(ans.body.value)
  ELSE Return(Arr(<<>>))

\* fetchRepoTree (lines 193-209)
fetchRepoTree(ans) ==
  IF ans.kind = "throw" THEN Return(Null)
  ELSE IF ~ResOk(ans.status) THEN Return(Null)
  ELSE IF ~ans.body.valid THEN Return(Null)
  ELSE Return(ans.body.value)

\* fetchFileContent without its try/catch: a rejected fetch escapes to the caller.
fetchFileContentNoCatch(ans) ==
  IF ans.kind = "throw" THEN Throw
  ELSE IF ~ResOk(ans.status) THEN Return(Null)
  ELSE Return(Str(ans.body.text))

\* fetchFileContent (lines 221-243)
fetchFileContent(ans) ==
  IF ans.kind = "throw" THEN Return(Null)
  ELSE IF ~ResOk(ans.status) THEN
    IF ans.status = 404 THEN Return(Null) ELSE Return(Null)
  ELSE Return(Str(ans.body.text))

\* issue => !issue.pull_request (the field is optional; when present it is an object)
NotPullRequest(issue) == "pull_request" \notin DOMAIN issue

\* data.filter(issue => !issue.pull_request)
RECURSIVE FilterNotPullRequest(_)
FilterNotPullRequest(s) ==
  IF s = <<>> THEN <<>>
  ELSE (IF NotPullRequest(Head(s)) THEN <<Head(s)>> ELSE <<>>) \o FilterNotPullRequest(Tail(s))

\* fetchIssues without its try/catch: a rejected fetch escapes to the caller.
fetchIssuesNoCatch(ans) ==
  IF ans.kind = "throw" THEN Throw
  ELSE IF ~ResOk(ans.status) THEN Return(Arr(<<>>))
  ELSE IF ~ans.body.valid THEN Throw
  ELSE IF ans.body.value.t # "array" THEN Throw
  ELSE Return(Arr(FilterNotPullRequest(ans.body.value.v)))

\* fetchIssues (lines 257-274); data.filter on a non-array throws inside the try
fetchIssues(ans) ==
  IF ans.kind = "throw" THEN Return(Arr(<<>>))
  ELSE IF ~ResOk(ans.status) THEN Return(Arr(<<>>))
  ELSE IF ~ans.body.valid THEN Return(Arr(<<>>))
  ELSE IF ans.body.value.t # "array" THEN Return(Arr(<<>>))
  ELSE Return(Arr(FilterNotPullRequest(ans.body.value.v)))

\* fetchPullRequests (lines 276-291)
fetchPullRequests(ans) ==
  IF ans.kind = "throw" THEN Return(Arr(<<>>))
  ELSE IF ~ResOk(ans.status) THEN Return(Arr(<<>>))
  ELSE IF ~ans.body.valid THEN Return(Arr(<<>>))
  ELSE Return(ans.body.value)

\* fetchReleases (lines 306-321)
fetchReleases(ans) ==
  IF ans.kind = "throw" THEN Return(Arr(<<>>))
  ELSE IF ~ResOk(ans.status) THEN Return(Arr(<<>>))
  ELSE IF ~ans.body.valid THEN Return(Arr(<<>>))
  ELSE Return(ans.body.value)

ClientOps ==
  { "fetchRepos", "fetchRepo", "fetchReadme", "fetchCommits", "fetchLanguages",
    "fetchCommitActivity", "fetchCodeFrequency", "fetchRepoTree", "fetchFileContent",
    "fetchIssues", "fetchPullRequests", "fetchReleases" }

\* The two operations that take a retries parameter (default 3).
StatsOps == { "fetchCommitActivity", "fetchCodeFrequency" }
DefaultRetries == 3

\* What operation op does with answer ans when it has `retries` retries left.
Outcome(op, ans, retries) ==
  CASE op = "fetchRepos"          -> fetchRepos(ans)
    [] op = "fetchRepo"           -> fetchRepo(ans)
    [] op = "fetchReadme"         -> fetchReadme(ans)
    [] op = "fetchCommits"        -> fetchCommits(ans)
    [] op = "fetchLanguages"      -> fetchLanguages(ans)
    [] op = "fetchCommitActivity" -> fetchCommitActivity(ans, retries)
    [] op = "fetchCodeFrequency"  -> fetchCodeFrequency(ans, retries)
    [] op = "fetchRepoTree"       -> fetchRepoTree(ans)
    [] op = "fetchFileContent"    -> fetchFileContent(ans)
    [] op = "fetchIssues"         -> fetchIssues(ans)
    [] op = "fetchPullRequests"   -> fetchPullRequests(ans)
    [] op = "fetchReleases"       -> fetchReleases(ans)

\* setTimeout(resolve, 1000), in seconds
RetryDelay == 1

(***************************************************************************)
(* One client operation driven directly: inputs of SpecClient.             *)
(***************************************************************************)
Statuses == { 200, 202, 403, 404, 500 }
Bodies ==
  { [valid |-> FALSE, value |-> Null, text |-> <<>>],
    [valid |-> TRUE, value |-> Obj(<<>>), text |-> <<"{", "}">>],
    [valid |-> TRUE, value |-> Arr(<<>>), text |-> <<"[", "]">>],
    [valid |-> TRUE, value |-> Arr(<<[id |-> 1], [id |-> 2, pull_request |-> TRUE]>>),
     text |-> <<"[", "1", "2", "]">>] }
NoBody == [valid |-> FALSE, value |-> Null, text |-> <<>>]
Answers ==
  { [kind |-> "throw", status |-> 0, body |-> NoBody] }
    \cup { [kind |-> "response", status |-> st, body |-> b] : st \in Statuses, b \in Bodies }

ClientIdle ==
  [ pc |-> "idle", op |-> "none", retries |-> 0, requests |-> 0, slept |-> 0,
    answers |-> <<>>, result |-> Null, threw |-> FALSE ]

\* An operation is called: its request goes out.
ClientCall(op) ==
  /\ client.pc = "idle"
  /\ client' = [ pc |-> "inflight", op |-> op, retries |-> DefaultRetries, requests |-> 1,
                 slept |-> 0, answers |-> <<>>, result |-> Null, threw |-> FALSE ]
  /\ UNCHANGED <<cacheVars, pure, orchVars>>

\* The awaited fetch settles with `ans`.  A "retry" outcome awaits the timer and
\* calls the operation again with one retry less, which issues the next request.
ClientAnswer(ans) ==
  /\ client.pc = "inflight"
  /\ LET o == Outcome(client.op, ans, client.retries) IN
     IF o.tag = "retry"
     THEN /\ client' = [client EXCEPT !.answers = Append(@, ans), !.retries = @ - 1,
                                      !.slept = @ + RetryDelay, !.requests = @ + 1]
          /\ now' = now + RetryDelay
     ELSE /\ client' = [client EXCEPT !.pc = "done", !.answers = Append(@, ans),
                                      !.result = o.value, !.threw = (o.tag = "throw")]
          /\ now' = now
  /\ UNCHANGED <<cache, ticks, sweepDue, sets, lastOp, written, unswept, pure, orchVars>>

\* The caller has its value; the next call may start.
ClientDone ==
  /\ client.pc = "done"
  /\ client' = ClientIdle
  /\ UNCHANGED <<cacheVars, pure, orchVars>>

InitClient ==
  /\ InitCacheVars
  /\ client = ClientIdle
  /\ InitOrchVars
  /\ pure = PureIdle

NextClient ==
  \/ \E op \in ClientOps : ClientCall(op)
  \/ \E ans \in Answers : ClientAnswer(ans)
  \/ ClientDone

SpecClient == InitClient /\ [][NextClient]_vars

\* The answer that settled the finished call.
LastAnswer == client.answers[Len(client.answers)]
Is202(ans) == ans.kind = "response" /\ ans.status = 202

(***************************************************************************)
(* C4: when the upstream answers a commit-activity or code-frequency       *)
(* request with 202 ("computation in progress"), the client waits a fixed  *)
(* 1 second and re-issues the request, up to 3 times; if every answer is   *)
(* still 202 it returns the empty sequence, and if a retry is answered     *)
(* with success it returns that answer's data.                             *)
(***************************************************************************)
C4_PendingIsRetriedThreeTimes ==
  (client.pc = "done" /\ client.op \in StatsOps) =>
     LET n == Len(client.answers) IN
     /\ client.requests = n
     /\ client.slept = (n - 1) * RetryDelay
     /\ \A i \in 1..(n - 1) : Is202(client.answers[i])
     /\ Is202(LastAnswer) => (n = DefaultRetries + 1 /\ client.result = Arr(<<>>))
     /\ (n > 1 /\ LastAnswer.kind = "response" /\ LastAnswer.status = 200
           /\ LastAnswer.body.valid /\ LastAnswer.body.value.t = "array")
          => client.result = LastAnswer.body.value

\* The safe default the claim names for each operation.
C5_SafeDefault(op) ==
  IF op \in {"fetchRepo", "fetchReadme", "fetchRepoTree", "fetchFileContent"} THEN Null
  ELSE IF op = "fetchLanguages" THEN Obj(<<>>)
  ELSE Arr(<<>>)

\* A transport exception or a status outside 200-299.
C5_Failed(ans) == ans.kind = "throw" \/ ans.status < 200 \/ ans.status > 299

(***************************************************************************)
(* C5: every Remote Data Client operation is fail-soft: on a transport     *)
(* exception and on any non-success HTTP status it returns its safe        *)
(* default (empty sequence, null, or empty mapping) and no exception       *)
(* reaches its caller.                                                     *)
(***************************************************************************)
C5_FailSoft ==
  client.pc = "done" =>
     /\ ~client.threw
     /\ C5_Failed(LastAnswer) => client.result = C5_SafeDefault(client.op)

\* fetchFileContent has returned null from a rejected fetch; fetchLanguages would
\* reach the same state with its empty mapping.
C5_Witness ==
  /\ client.pc = "done"
  /\ client.op = "fetchFileContent"
  /\ LastAnswer.kind = "throw"
  /\ client.result = Null
  /\ ~client.threw

(***************************************************************************)
(* useKernelStore.ts: the enrichment functions                             *)
(*                                                                         *)
(* daysSinceUpdate is a float number of days.  It is modelled as an        *)
(* integer number of seconds (DayUnits to the day), which represents every *)
(* value the orchestrator computes from whole-second timestamps exactly.   *)
(***************************************************************************)
DayUnits == 24 * 60 * 60

\* enum RepoActivityStatus (lines 119-124)
ACTIVE == "active"
STABLE == "stable"
DORMANT == "dormant"
ARCHIVED == "archived"

\* classifyActivityStatus with the first boundary written <= instead of <.
classifyActivityStatusInclusive(daysSinceUpdate, archived) ==
  IF archived THEN ARCHIVED
  ELSE IF daysSinceUpdate <= 30 * DayUnits THEN ACTIVE
  ELSE IF daysSinceUpdate < 90 * DayUnits THEN STABLE
  ELSE DORMANT

\* classifyActivityStatus (lines 269-274)
classifyActivityStatus(daysSinceUpdate, archived) ==
  IF archived THEN ARCHIVED
  ELSE IF daysSinceUpdate < 30 * DayUnits THEN ACTIVE
  ELSE IF daysSinceUpdate < 90 * DayUnits THEN STABLE
  ELSE DORMANT

\* Array.prototype.slice(-n): the last n elements, or all of them when there are fewer.
SliceLast(s, n) == IF Len(s) <= n THEN s ELSE SubSeq(s, Len(s) - n + 1, Len(s))

\* reduce((sum, w) => sum + w.total, 0)
RECURSIVE SumTotals(_)
SumTotals(s) == IF s = <<>> THEN 0 ELSE Head(s).total + SumTotals(Tail(s))

\* Math.round(num / den) for den > 0: floor(x + 0.5).  The double (S / 13) * 30 is
\* within a few ulps of 30 S / 13, whose distance from any k + 0.5 is at least 1/26.
MathRound(num, den) == (2 * num + den) \div (2 * den)

\* fetchAllReposEnriched, lines 345-348
commitVelocityList(activity) ==
  LET commitsLast90 == SumTotals(SliceLast(activity, 13)) IN
  MathRound(commitsLast90 * 30, 13)

\* The details velocity computed over a 12-week window.
commitVelocityDetailsTwelve(activity) ==
  LET commitsLast90 == SumTotals(SliceLast(activity, 12)) IN
  MathRound(commitsLast90 * 30, 13)

\* fetchRepoDetails, lines 415-416
commitVelocityDetails(activity) ==
  LET commitsLast90 == SumTotals(SliceLast(activity, 13)) IN
  MathRound(commitsLast90 * 30, 13)

(***************************************************************************)
(* useKernelStore.ts: stack detection                                      *)
(***************************************************************************)
\* String.prototype.toLowerCase, one character
LowerChar(c) ==
  CASE c = "A" -> "a"
    [] c = "B" -> "b"
    [] c = "C" -> "c"
    [] c = "D" -> "d"
    [] c = "E" -> "e"
    [] c = "F" -> "f"
    [] c = "G" -> "g"
    [] c = "H" -> "h"
    [] c = "I" -> "i"
    [] c = "J" -> "j"
    [] c = "K" -> "k"
    [] c = "L" -> "l"
    [] c = "M" -> "m"
    [] c = "N" -> "n"
    [] c = "O" -> "o"
    [] c = "P" -> "p"
    [] c = "Q" -> "q"
    [] c = "R" -> "r"
    [] c = "S" -> "s"
    [] c = "T" -> "t"
    [] c = "U" -> "u"
    [] c = "V" -> "v"
    [] c = "W" -> "w"
    [] c = "X" -> "x"
    [] c = "Y" -> "y"
    [] c = "Z" -> "z"
    [] OTHER -> c

\* String.prototype.toLowerCase
ToLowerCase(s) == [i \in 1..Len(s) |-> LowerChar(s[i])]

\* s contains w as a substring
Contains(s, w) ==
  \E i \in 1..(Len(s) - Len(w) + 1) : \A j \in 1..Len(w) : s[i + j - 1] = w[j]

\* A matcher that tries only the first alternative of its pattern.
RegexTestFirstAlternative(alts, folded) == Contains(folded, alts[1])

\* /a|b/i.test(s): some alternative occurs in s, letter case ignored.  The alternatives
\* are lower-case literals; folded is s in lower case.
RegexTest(alts, folded) == \E k \in 1..Len(alts) : Contains(folded, alts[k])

\* STACK_PATTERNS (lines 173-215), in insertion order; alts are the alternatives of the regex.
STACK_PATTERNS ==
  <<
    [ key |-> <<"n", "e", "x", "t">>,
      alts |-> << <<"n", "e", "x", "t">> >>, category |-> "frameworks" ],
    [ key |-> <<"r", "e", "a", "c", "t">>,
      alts |-> << <<"r", "e", "a", "c", "t">> >>, category |-> "frameworks" ],
    [ key |-> <<"v", "u", "e">>,
      alts |-> << <<"v", "u", "e">> >>, category |-> "frameworks" ],
    [ key |-> <<"s", "v", "e", "l", "t", "e">>,
      alts |-> << <<"s", "v", "e", "l", "t", "e">> >>, category |-> "frameworks" ],
    [ key |-> <<"a", "n", "g", "u", "l", "a", "r">>,
      alts |-> << <<"a", "n", "g", "u", "l", "a", "r">> >>, category |-> "frameworks" ],
    [ key |-> <<"e", "x", "p", "r", "e", "s", "s">>,
      alts |-> << <<"e", "x", "p", "r", "e", "s", "s">> >>, category |-> "frameworks" ],
    [ key |-> <<"d", "j", "a", "n", "g", "o">>,
      alts |-> << <<"d", "j", "a", "n", "g", "o">> >>, category |-> "frameworks" ],
    [ key |-> <<"f", "l", "a", "s", "k">>,
      alts |-> << <<"f", "l", "a", "s", "k">> >>, category |-> "frameworks" ],
    [ key |-> <<"s", "p", "r", "i", "n", "g">>,
      alts |-> << <<"s", "p", "r", "i", "n", "g">> >>, category |-> "frameworks" ],
    [ key |-> <<"f", "a", "s", "t", "a", "p", "i">>,
      alts |-> << <<"f", "a", "s", "t", "a", "p", "i">> >>, category |-> "frameworks" ],
    [ key |-> <<"p", "o", "s", "t", "g", "r", "e", "s">>,
      alts |-> << <<"p", "o", "s", "t", "g", "r", "e", "s">>, <<"p", "g">> >>, category |-> "databases" ],
    [ key |-> <<"m", "o", "n", "g", "o", "d", "b">>,
      alts |-> << <<"m", "o", "n", "g", "o", "d", "b">>, <<"m", "o", "n", "g", "o", "o", "s", "e">> >>, category |-> "databases" ],
    [ key |-> <<"m", "y", "s", "q", "l">>,
      alts |-> << <<"m", "y", "s", "q", "l">> >>, category |-> "databases" ],
    [ key |-> <<"r", "e", "d", "i", "s">>,
      alts |-> << <<"r", "e", "d", "i", "s">> >>, category |-> "databases" ],
    [ key |-> <<"c", "a", "s", "s", "a", "n", "d", "r", "a">>,
      alts |-> << <<"c", "a", "s", "s", "a", "n", "d", "r", "a">> >>, category |-> "databases" ],
    [ key |-> <<"d", "y", "n", "a", "m", "o", "d", "b">>,
      alts |-> << <<"d", "y", "n", "a", "m", "o", "d", "b">> >>, category |-> "databases" ],
    [ key |-> <<"a", "u", "t", "h", "0">>,
      alts |-> << <<"a", "u", "t", "h", "0">> >>, category |-> "auth" ],
    [ key |-> <<"f", "i", "r", "e", "b", "a", "s", "e">>,
      alts |-> << <<"f", "i", "r", "e", "b", "a", "s", "e">> >>, category |-> "auth" ],
    [ key |-> <<"c", "o", "g", "n", "i", "t", "o">>,
      alts |-> << <<"c", "o", "g", "n", "i", "t", "o">> >>, category |-> "auth" ],
    [ key |-> <<"o", "a", "u", "t", "h">>,
      alts |-> << <<"o", "a", "u", "t", "h">> >>, category |-> "auth" ],
    [ key |-> <<"j", "w", "t">>,
      alts |-> << <<"j", "w", "t">>, <<"j", "s", "o", "n", "w", "e", "b", "t", "o", "k", "e", "n">> >>, category |-> "auth" ],
    [ key |-> <<"d", "o", "c", "k", "e", "r">>,
      alts |-> << <<"d", "o", "c", "k", "e", "r">> >>, category |-> "infra" ],
    [ key |-> <<"k", "u", "b", "e", "r", "n", "e", "t", "e", "s">>,
      alts |-> << <<"k", "u", "b", "e", "r", "n", "e", "t", "e", "s">>, <<"k", "8", "s">> >>, category |-> "infra" ],
    [ key |-> <<"a", "w", "s">>,
      alts |-> << <<"a", "w", "s">>, <<"a", "m", "a", "z", "o", "n">> >>, category |-> "infra" ],
    [ key |-> <<"a", "z", "u", "r", "e">>,
      alts |-> << <<"a", "z", "u", "r", "e">> >>, category |-> "infra" ],
    [ key |-> <<"g", "c", "p">>,
      alts |-> << <<"g", "c", "p">>, <<"g", "o", "o", "g", "l", "e", "-", "c", "l", "o", "u", "d">> >>, category |-> "infra" ],
    [ key |-> <<"t", "e", "r", "r", "a", "f", "o", "r", "m">>,
      alts |-> << <<"t", "e", "r", "r", "a", "f", "o", "r", "m">> >>, category |-> "infra" ],
    [ key |-> <<"j", "e", "s", "t">>,
      alts |-> << <<"j", "e", "s", "t">> >>, category |-> "testing" ],
    [ key |-> <<"v", "i", "t", "e", "s", "t">>,
      alts |-> << <<"v", "i", "t", "e", "s", "t">> >>, category |-> "testing" ],
    [ key |-> <<"m", "o", "c", "h", "a">>,
      alts |-> << <<"m", "o", "c", "h", "a">> >>, category |-> "testing" ],
    [ key |-> <<"p", "y", "t", "e", "s", "t">>,
      alts |-> << <<"p", "y", "t", "e", "s", "t">> >>, category |-> "testing" ],
    [ key |-> <<"r", "s", "p", "e", "c">>,
      alts |-> << <<"r", "s", "p", "e", "c">> >>, category |-> "testing" ]
  >>

\* const stack: ProjectStack = { frameworks: [], ... } (lines 218-225)
EmptyStack ==
  [ frameworks |-> <<>>, databases |-> <<>>, auth |-> <<>>, infra |-> <<>>,
    testing |-> <<>>, other |-> <<>> ]

\* An includes that never finds the element.
IncludesNever(s, x) == FALSE

\* Array.prototype.includes
Includes(s, x) == \E i \in 1..Len(s) : s[i] = x

\* The loop over Object.entries(STACK_PATTERNS) from entry i on (lines 235-243, 253-260)
RECURSIVE MatchFrom(_, _, _)
MatchFrom(stack, folded, i) ==
  IF i > Len(STACK_PATTERNS) THEN stack
  ELSE LET p == STACK_PATTERNS[i]
           next == IF RegexTest(p.alts, folded) /\ ~Includes(stack[p.category], p.key)
                   THEN [stack EXCEPT ![p.category] = Append(@, p.key)]
                   ELSE stack
       IN MatchFrom(next, folded, i + 1)

\* The whole loop, on depString
MatchPatterns(stack, depString) == MatchFrom(stack, ToLowerCase(depString), 1)

\* The files the upstream may serve as package.json or requirements.txt: a text and
\* what JSON.parse makes of it.  Dependency maps are the sequences of their keys.
PackageReactRedis ==
  [ text  |-> <<"{", "r", "e", "a", "c", "t", ",", "r", "e", "d", "i", "s", "}">>,
    valid |-> TRUE,
    value |-> Obj([dependencies |-> << <<"r", "e", "a", "c", "t">>, <<"r", "e", "d", "i", "s">> >>]) ]
PackageBroken ==
  [ text |-> <<"{", "r", "e", "a", "c", "t">>, valid |-> FALSE, value |-> Null ]
PackageNextPg ==
  [ text  |-> <<"{", "n", "e", "x", "t", ",", "p", "g", ";", "j", "e", "s", "t", ",", "n", "e", "x", "t", "}">>,
    valid |-> TRUE,
    value |-> Obj([ dependencies |-> << <<"n", "e", "x", "t">>, <<"p", "g">> >>,
                    devDependencies |-> << <<"j", "e", "s", "t">>, <<"n", "e", "x", "t">> >> ]) ]
RequirementsFlask ==
  [ text |-> <<"F", "l", "a", "s", "k", "=", "=", "2">>, valid |-> FALSE, value |-> Null ]
RequirementsRedisPg ==
  [ text |-> <<"r", "e", "d", "i", "s", " ", "p", "g">>, valid |-> FALSE, value |-> Null ]
Files ==
  { PackageReactRedis, PackageBroken, PackageNextPg, RequirementsFlask, RequirementsRedisPg }

\* JSON.parse: a function of the text
JsonParse(text) == CHOOSE f \in Files : f.text = text

\* Object.keys({ ...pkg.dependencies, ...pkg.devDependencies }).join(' ')
DepString(pkg) ==
  LET deps == IF "dependencies" \in DOMAIN pkg.v THEN pkg.v.dependencies ELSE <<>>
      dev  == IF "devDependencies" \in DOMAIN pkg.v THEN pkg.v.devDependencies ELSE <<>>
      more == SelectSeq(dev, LAMBDA d : ~Includes(deps, d))
  IN Join(deps \o more, <<" ">>)

\* A detection that falls back to the raw text when package.json cannot be parsed.
StackAfterPackageJsonRawFallback(packageJson) ==
  IF ~Truthy(packageJson) THEN EmptyStack
  ELSE LET parsed == JsonParse(packageJson.v) IN
       IF ~parsed.valid \/ parsed.value.t = "null"
       THEN MatchPatterns(EmptyStack, packageJson.v)
       ELSE MatchPatterns(EmptyStack, DepString(parsed.value))

\* detectProjectStack up to its second await (lines 218-247): packageJson is what
\* fetchFileContent returned.  A SyntaxError of JSON.parse and the TypeError of
\* reading a property of null are caught and leave the stack as it is.
StackAfterPackageJson(packageJson) ==
  IF ~Truthy(packageJson) THEN EmptyStack
  ELSE LET parsed == JsonParse(packageJson.v) IN
       IF ~parsed.valid \/ parsed.value.t = "null" THEN EmptyStack
       ELSE MatchPatterns(EmptyStack, DepString(parsed.value))

\* detectProjectStack from its second await on (lines 250-264)
StackAfterRequirements(stack, requirements) ==
  IF ~Truthy(requirements) THEN stack
  ELSE MatchPatterns(stack, ToLowerCase(requirements.v))

(***************************************************************************)
(* useKernelStore.ts: portfolio metrics                                    *)
(***************************************************************************)
\* The distinct elements of s in the order of their first appearance: the insertion
\* order of a Set and of an object's string keys.
RECURSIVE Distinct(_)
Distinct(s) ==
  IF s = <<>> THEN <<>>
  ELSE LET r == Distinct(SubSeq(s, 1, Len(s) - 1)) IN
       IF Includes(r, s[Len(s)]) THEN r ELSE Append(r, s[Len(s)])

\* reduce((sum, x) => sum + x, 0) over a sequence of numbers
RECURSIVE SumSeq(_)
SumSeq(s) == IF s = <<>> THEN 0 ELSE Head(s) + SumSeq(Tail(s))

\* Array.prototype.flatMap(r => r.topics)
RECURSIVE Topics(_)
Topics(repos) == IF repos = <<>> THEN <<>> ELSE Head(repos).topics \o Topics(Tail(repos))

\* Array.prototype.sort(([, a], [, b]) => b - a): descending by count, stable
RECURSIVE SortByCountDesc(_)
SortByCountDesc(s) ==
  IF s = <<>> THEN <<>>
  ELSE LET sorted == SortByCountDesc(SubSeq(s, 1, Len(s) - 1))
           e == s[Len(s)]
           k == Cardinality({ i \in 1..Len(sorted) : sorted[i].count >= e.count })
       IN SubSeq(sorted, 1, k) \o <<e>> \o SubSeq(sorted, k + 1, Len(sorted))

\* Array.prototype.slice(0, n)
SliceFirst(s, n) == IF Len(s) <= n THEN s ELSE SubSeq(s, 1, n)

\* Portfolio metrics that add the monthly velocities up without scaling them to a year.
portfolioMetricsUnscaled(repos, t) ==
  LET withLanguage == SelectSeq(repos, LAMBDA r : Truthy(r.language))
      languages == [i \in 1..Len(withLanguage) |-> withLanguage[i].language]
      allLanguages == [i \in 1..Len(Distinct(languages)) |->
                         [ lang |-> Distinct(languages)[i],
                           count |-> Cardinality({ j \in 1..Len(languages) :
                                                     languages[j] = Distinct(languages)[i] }) ]]
  IN [ totalRepos |-> Len(repos),
       activeProjects |-> Len(SelectSeq(repos, LAMBDA r : r.activityStatus = ACTIVE)),
       totalStars |-> SumSeq([i \in 1..Len(repos) |-> repos[i].stargazers_count]),
       totalCommits |-> MathRound(SumSeq([i \in 1..Len(repos) |-> repos[i].commitVelocity]), 1),
       primaryLanguages |-> SliceFirst(SortByCountDesc(allLanguages), 5),
       domains |-> Distinct(Topics(repos)),
       lastUpdated |-> t ]

\* portfolioMetrics from the list it awaited on (lines 458-489), at time t
portfolioMetrics(repos, t) ==
  LET withLanguage == SelectSeq(repos, LAMBDA r : Truthy(r.language))
      languages == [i \in 1..Len(withLanguage) |-> withLanguage[i].language]
      allLanguages == [i \in 1..Len(Distinct(languages)) |->
                         [ lang |-> Distinct(languages)[i],
                           count |-> Cardinality({ j \in 1..Len(languages) :
                                                     languages[j] = Distinct(languages)[i] }) ]]
  IN [ totalRepos |-> Len(repos),
       activeProjects |-> Len(SelectSeq(repos, LAMBDA r : r.activityStatus = ACTIVE)),
       totalStars |-> SumSeq([i \in 1..Len(repos) |-> repos[i].stargazers_count]),
       totalCommits |-> MathRound(SumSeq([i \in 1..Len(repos) |-> repos[i].commitVelocity * 12]), 1),
       primaryLanguages |-> SliceFirst(SortByCountDesc(allLanguages), 5),
       domains |-> Distinct(Topics(repos)),
       lastUpdated |-> t ]

(***************************************************************************)
(* The enrichment functions applied on their own: SpecClassify,            *)
(* SpecVelocity and SpecMetrics.                                           *)
(***************************************************************************)
\* daysSinceUpdate inputs: every tenth of a day from -1.0 to 100.0.
DayInputs == { k * (DayUnits \div 10) : k \in -10..1000 }
\* Weekly totals of the generated samples.
WeekTotals == { 1, 10 }
SecondsPerWeek == 7 * 24 * 60 * 60

InitClassify ==
  /\ InitCacheVars
  /\ client = ClientIdle
  /\ InitOrchVars
  /\ \E d \in DayInputs, a \in BOOLEAN : pure = [PureIdle EXCEPT !.days = d, !.archived = a]

Classify ==
  /\ pure.status = "unset"
  /\ pure' = [pure EXCEPT !.status = classifyActivityStatus(pure.days, pure.archived)]
  /\ UNCHANGED <<cacheVars, client, orchVars>>

NextClassify == Classify

SpecClassify == InitClassify /\ [][NextClassify]_vars

InitVelocity ==
  /\ InitCacheVars
  /\ client = ClientIdle
  /\ InitOrchVars
  /\ pure = PureIdle

\* The upstream's activity sequence grows by one weekly sample.
AddWeek(total) ==
  /\ Len(pure.activity) < MaxWeeks
  /\ pure' = [pure EXCEPT
       !.activity = Append(@, [week |-> Len(@) * SecondsPerWeek, total |-> total]),
       !.velocityList = -1, !.velocityDetails = -1]
  /\ UNCHANGED <<cacheVars, client, orchVars>>

\* Both orchestrator operations compute the velocity of the current sequence.
ComputeVelocity ==
  /\ pure.velocityList = -1
  /\ pure' = [pure EXCEPT !.velocityList = commitVelocityList(pure.activity),
                          !.velocityDetails = commitVelocityDetails(pure.activity)]
  /\ UNCHANGED <<cacheVars, client, orchVars>>

NextVelocity ==
  \/ \E t \in WeekTotals : AddWeek(t)
  \/ ComputeVelocity

SpecVelocity == InitVelocity /\ [][NextVelocity]_vars

\* Enriched repositories portfolioMetrics is applied to: name, stars, velocity, status,
\* language and topics vary.
TypeScript == [t |-> "string", v |-> <<"T", "S">>]
Python == [t |-> "string", v |-> <<"P", "y">>]
EnrichedSamples ==
  { [ name |-> <<"a">>, stargazers_count |-> 3, commitVelocity |-> 10, activityStatus |-> ACTIVE,
      language |-> TypeScript, topics |-> << <<"w", "e", "b">> >> ],
    [ name |-> <<"b">>, stargazers_count |-> 1, commitVelocity |-> 5, activityStatus |-> STABLE,
      language |-> Python, topics |-> << <<"m", "l">>, <<"w", "e", "b">> >> ],
    [ name |-> <<"c">>, stargazers_count |-> 0, commitVelocity |-> 0, activityStatus |-> DORMANT,
      language |-> [t |-> "null"], topics |-> <<>> ],
    [ name |-> <<"d">>, stargazers_count |-> 7, commitVelocity |-> 30, activityStatus |-> ACTIVE,
      language |-> Python, topics |-> << <<"m", "l">> >> ] }

InitMetrics ==
  /\ InitCacheVars
  /\ client = ClientIdle
  /\ InitOrchVars
  /\ pure = PureIdle

\* The enriched list grows by one repository.
AddRepo(e) ==
  /\ Len(pure.repos) < MaxRepos
  /\ pure' = [pure EXCEPT !.repos = Append(@, e), !.metrics = [t |-> "null"]]
  /\ UNCHANGED <<cacheVars, client, orchVars>>

\* portfolioMetrics computes over the current list.
ComputeMetrics ==
  /\ pure.metrics = [t |-> "null"]
  /\ pure' = [pure EXCEPT !.metrics = [t |-> "object", v |-> portfolioMetrics(pure.repos, now)]]
  /\ UNCHANGED <<cacheVars, client, orchVars>>

NextMetrics ==
  \/ \E e \in EnrichedSamples : AddRepo(e)
  \/ ComputeMetrics

SpecMetrics == InitMetrics /\ [][NextMetrics]_vars

\* The sum of field f of the repositories from index i on.
RECURSIVE C12_SumFrom(_, _, _)
C12_SumFrom(s, f, i) == IF i > Len(s) THEN 0 ELSE s[i][f] + C12_SumFrom(s, f, i + 1)

(***************************************************************************)
(* C12: Portfolio-metrics totalCommits equals the sum over the             *)
(* repositories of the enriched list of commitVelocity x 12 (velocities 10 *)
(* and 5 give 180), totalStars equals the sum of their star counts,        *)
(* totalRepos equals the length of the list and activeProjects equals the  *)
(* number of its items whose activityStatus is ACTIVE.                     *)
(***************************************************************************)
C12_MetricsAreTheSums ==
  pure.metrics.t = "object" =>
     LET m == pure.metrics.v
         repos == pure.repos IN
     /\ m.totalCommits = 12 * C12_SumFrom(repos, "commitVelocity", 1)
     /\ m.totalStars = C12_SumFrom(repos, "stargazers_count", 1)
     /\ m.totalRepos = Len(repos)
     /\ m.activeProjects = Cardinality({ i \in 1..Len(repos) : repos[i].activityStatus = ACTIVE })
     /\ [i \in 1..Len(repos) |-> repos[i].commitVelocity] = <<10, 5>> => m.totalCommits = 180

\* Two repositories with velocities 10 and 5, one of them ACTIVE: 180 commits, 4 stars.
C12_Witness ==
  /\ pure.metrics.t = "object"
  /\ [i \in 1..Len(pure.repos) |-> pure.repos[i].commitVelocity] = <<10, 5>>
  /\ pure.metrics.v.totalCommits = 180
  /\ pure.metrics.v.totalStars = 4
  /\ pure.metrics.v.totalRepos = 2
  /\ pure.metrics.v.activeProjects = 1

(***************************************************************************)
(* C9: classifyActivityStatus(days, archived) is ARCHIVED whenever         *)
(* archived is true, whatever days is; otherwise ACTIVE iff days < 30,     *)
(* STABLE iff 30 <= days < 90 and DORMANT iff days >= 90 (exactly 30 and   *)
(* 89.9 are STABLE, exactly 90 is DORMANT).                                *)
(***************************************************************************)
C9_ClassifyBoundaries ==
  pure.status # "unset" =>
     LET tenths == pure.days \div (DayUnits \div 10) IN
     /\ pure.archived => pure.status = ARCHIVED
     /\ ~pure.archived =>
          /\ (pure.status = ACTIVE <=> tenths < 300)
          /\ (pure.status = STABLE <=> (300 <= tenths /\ tenths < 900))
          /\ (pure.status = DORMANT <=> tenths >= 900)

\* Exactly 30 days, not archived, has been classified STABLE.
C9_Witness ==
  /\ pure.days = 30 * DayUnits
  /\ ~pure.archived
  /\ pure.status = STABLE

\* The sum of the totals of the last min(13, n) samples, taken by index.
RECURSIVE C10_SumFrom(_, _)
C10_SumFrom(s, i) == IF i > Len(s) THEN 0 ELSE s[i].total + C10_SumFrom(s, i + 1)
C10_TrailingSum(s) == C10_SumFrom(s, IF Len(s) > 13 THEN Len(s) - 12 ELSE 1)
C10_Abs(x) == IF x < 0 THEN -x ELSE x

(***************************************************************************)
(* C10: commit velocity is round(S / 13 * 30), S being the sum of the      *)
(* trailing 13 weekly totals, or of all the samples when there are fewer   *)
(* than 13 (no padding; the empty sequence gives 0); List-enriched and     *)
(* Repo-details compute the same velocity from the same samples.           *)
(* v = round(30 S / 13) is stated as |13 v - 30 S| <= 13 / 2.              *)
(***************************************************************************)
C10_VelocityIsRoundedTrailingSum ==
  pure.velocityList # -1 =>
     LET S == C10_TrailingSum(pure.activity) IN
     /\ 2 * C10_Abs(13 * pure.velocityList - 30 * S) <= 13
     /\ pure.velocityDetails = pure.velocityList
     /\ pure.activity = <<>> => pure.velocityList = 0

\* Fourteen samples, the last thirteen of which sum to 130: velocity 300 in both operations.
C10_Witness ==
  /\ Len(pure.activity) = 14
  /\ pure.activity[1].total = 1
  /\ C10_TrailingSum(pure.activity) = 130
  /\ pure.velocityList = 300
  /\ pure.velocityDetails = 300

(***************************************************************************)
(* The cache driven directly: inputs of SpecCache.                         *)
(***************************************************************************)
\* (namespace, args) pairs: ("r", ["x"]), ("r", ["x", "y"]), ("rd", ["x"]) and
\* ("r", ["x:y"]), a single argument that itself contains the separator.
CacheTargets ==
  { << <<"r">>, << <<"x">> >> >>,
    << <<"r">>, << <<"x">>, <<"y">> >> >>,
    << <<"r", "d">>, << <<"x">> >> >>,
    << <<"r">>, << <<"x", ":", "y">> >> >> }
CacheCategories == { "REPOS", "REPO_DETAILS" }
CachePatterns == { <<"r">>, <<"r", "d">> }
\* Clock advances: one second, or the shorter of the TTLs in use (two of them make the longer).
ClockSteps == { 1, TTLs.REPO_DETAILS }

InitCache ==
  /\ InitCacheVars
  /\ client = ClientIdle
  /\ InitOrchVars
  /\ pure = PureIdle

Tick(d) ==
  /\ ticks < MaxTicks
  /\ now' = now + d
  /\ ticks' = ticks + 1
  /\ sweepDue' = (sweepDue \/ (now + d) \div SweepPeriod > now \div SweepPeriod)
  /\ lastOp' = NoOp
  /\ UNCHANGED <<cache, sets, written, unswept, outsideCache>>

\* The interval timer, due once per elapsed period, fires and runs cleanup().
Sweep ==
  /\ sweepDue
  /\ cache' = CleanupMap(cache, now)
  /\ sweepDue' = FALSE
  /\ lastOp' = NoOp
  /\ UNCHANGED <<now, ticks, sets, written, unswept, outsideCache>>

\* The k-th write of a run stores the value k.
CacheSet(ns, cat, args) ==
  LET key == generateKey(ns, args)
      data == sets + 1 IN
  /\ sets < MaxSets
  /\ sets' = sets + 1
  /\ cache' = SetMap(cache, key, cat, data, now)
  /\ unswept' = SetMap(unswept, key, cat, data, now)
  /\ written' = MapSet(written, key, [data |-> data, timestamp |-> now, ttl |-> TTLs[cat]])
  /\ lastOp' = NoOp
  /\ UNCHANGED <<now, ticks, sweepDue, outsideCache>>

\* A get that refreshes the timestamp of the entry it returns.
CacheGetTouches(ns, args) ==
  LET key == generateKey(ns, args)
      kept == GetMap(cache, key, now) IN
  /\ cache' = [k \in DOMAIN kept |->
                 IF k = key THEN [kept[k] EXCEPT !.timestamp = now] ELSE kept[k]]
  /\ unswept' = GetMap(unswept, key, now)
  /\ lastOp' = [op |-> "get", key |-> key, val |-> GetResult(cache, key, now)]
  /\ UNCHANGED <<now, ticks, sweepDue, sets, written, outsideCache>>

CacheGet(ns, args) ==
  LET key == generateKey(ns, args) IN
  /\ cache' = GetMap(cache, key, now)
  /\ unswept' = GetMap(unswept, key, now)
  /\ lastOp' = [op |-> "get", key |-> key, val |-> GetResult(cache, key, now)]
  /\ UNCHANGED <<now, ticks, sweepDue, sets, written, outsideCache>>

CacheInvalidate(ns, args) ==
  LET key == generateKey(ns, args) IN
  /\ cache' = InvalidateMap(cache, key)
  /\ unswept' = InvalidateMap(unswept, key)
  /\ written' = MapDelete(written, key)
  /\ lastOp' = NoOp
  /\ UNCHANGED <<now, ticks, sweepDue, sets, outsideCache>>

CacheInvalidatePattern(p) ==
  /\ cache' = InvalidatePatternMap(cache, p)
  /\ unswept' = InvalidatePatternMap(unswept, p)
  /\ written' = [k \in {x \in DOMAIN written : ~startsWith(x, p)} |-> written[k]]
  /\ lastOp' = NoOp
  /\ UNCHANGED <<now, ticks, sweepDue, sets, outsideCache>>

CacheClear ==
  /\ cache' = ClearMap
  /\ unswept' = ClearMap
  /\ written' = <<>>
  /\ lastOp' = NoOp
  /\ UNCHANGED <<now, ticks, sweepDue, sets, outsideCache>>

CacheGetStats ==
  /\ lastOp' = [op |-> "getStats", key |-> <<>>, val |-> Some(getStats(cache, now).size)]
  /\ UNCHANGED <<cache, now, ticks, sweepDue, sets, written, unswept, outsideCache>>

NextCache ==
  \/ \E d \in ClockSteps : Tick(d)
  \/ Sweep
  \/ \E t \in CacheTargets, cat \in CacheCategories :
       CacheSet(t[1], cat, t[2])
  \/ \E t \in CacheTargets : CacheGet(t[1], t[2])
  \/ \E t \in CacheTargets : CacheInvalidate(t[1], t[2])
  \/ \E p \in CachePatterns : CacheInvalidatePattern(p)
  \/ CacheClear
  \/ CacheGetStats

SpecCache == InitCache /\ [][NextCache]_vars

(***************************************************************************)
(* C1: after set(namespace, category, data, args), a get(namespace, args)  *)
(* with no set/invalidate/clear on that key in between returns exactly the *)
(* stored data when it is issued before the category's TTL has elapsed     *)
(* since the write; issued after the TTL has elapsed it returns null and   *)
(* the entry is no longer resident in the map.                             *)
(***************************************************************************)
C1_GetWithinTtlReturnsData_AfterTtlEvicts ==
  (lastOp.op = "get" /\ lastOp.key \in DOMAIN written) =>
     LET w == written[lastOp.key] IN
     /\ (now - w.timestamp < w.ttl => lastOp.val = Some(w.data))
     /\ (now - w.timestamp > w.ttl =>
            lastOp.val = None /\ lastOp.key \notin DOMAIN cache)

\* A get issued after the TTL elapsed found the entry still resident and evicted it.
C1_Witness ==
  /\ lastOp.op = "get"
  /\ lastOp.key \in DOMAIN written
  /\ now - written[lastOp.key].timestamp > written[lastOp.key].ttl
  /\ lastOp.val = None
  /\ sets = 2
  /\ Cardinality(DOMAIN cache) = 1


(***************************************************************************)
(* useKernelStore.ts: the orchestrator                                     *)
(*                                                                         *)
(* fetchAllReposEnriched and fetchRepoDetails run on one event loop: the   *)
(* code between two awaits is one step.  A step ends where the function    *)
(* awaits upstream answers and the next one starts when the awaited        *)
(* promise (a single call, or the Promise.all of a batch) has settled.     *)
(* A call record holds, for one caller: pc, the await the call is parked   *)
(* at; key, its cache key; hit, whether the cache check found a value;     *)
(* requests, the upstream requests it has issued; wrote/order, whether and *)
(* as which write of the run it wrote the cache; seen, the number of       *)
(* writes that had happened when it started; fin, the number of calls      *)
(* that had started when it finished, and doneAt, the time then; threw,    *)
(* whether it rejected; lookup, the status the upstream gave to fetchRepo  *)
(* (0: the fetch was rejected); answers, what the upstream answered: to    *)
(* the requests of each of the list's repositories, or to the batch of     *)
(* eight, to package.json and to requirements.txt; work, its local         *)
(* variables; result, the value it resolved with.  A call of               *)
(* portfolioMetrics (op "metrics") is the call of fetchAllReposEnriched it *)
(* awaits followed by one more step, after which pc is "returned" and      *)
(* metrics holds what it resolved with.  at is the value of Date.now() the *)
(* call computed daysSinceLastUpdate from (-1: it has read none).          *)
(* Timestamps of the upstream (pushed_at, week) are epoch seconds.         *)
(***************************************************************************)
Undefined == [t |-> "undefined"]

\* a || b
Or(a, b) == IF Truthy(a) THEN a ELSE b

\* `${b}` of a boolean
BoolStr(b) == IF b THEN <<"t", "r", "u", "e">> ELSE <<"f", "a", "l", "s", "e">>

NsList == <<"e", "n", "r", "i", "c", "h", "e", "d", "_", "r", "e", "p", "o", "s">>
NsDetails == <<"r", "e", "p", "o", "_", "d", "e", "t", "a", "i", "l", "s">>

\* A client operation run to completion on a script of upstream answers (the last
\* answer repeats): its value, the requests it issued and whether it threw.
RECURSIVE RunClient(_, _, _)
RunClient(op, script, retries) ==
  LET o == Outcome(op, Head(script), retries) IN
  IF o.tag = "retry"
  THEN LET r == RunClient(op, IF Len(script) > 1 THEN Tail(script) ELSE script, retries - 1)
       IN [value |-> r.value, requests |-> r.requests + 1, threw |-> r.threw]
  ELSE [value |-> o.value, requests |-> 1, threw |-> o.tag = "throw"]

\* op(...) called with its default parameters and answered with ans
Run(op, ans) == RunClient(op, <<ans>>, DefaultRetries)

\* A filter that applies excludeArchived and forgets excludeForks.
FilterReposArchivedOnly(repos, excludeArchived, excludeForks) ==
  IF excludeArchived THEN SelectSeq(repos, LAMBDA r : ~r.archived) ELSE repos

\* repos.filter(r => !r.archived) / repos.filter(r => !r.fork) (lines 336-337)
FilterRepos(repos, excludeArchived, excludeForks) ==
  LET a == IF excludeArchived THEN SelectSeq(repos, LAMBDA r : ~r.archived) ELSE repos
  IN IF excludeForks THEN SelectSeq(a, LAMBDA r : ~r.fork) ELSE a

\* A difference taken the wrong way round.
daysSinceLastUpdateReversed(repo, t) == repo.pushed_at - t

\* (Date.now() - new Date(repo.pushed_at).getTime()) / (1000 * 60 * 60 * 24), in DayUnits
daysSinceLastUpdate(repo, t) == t - repo.pushed_at

\* A list item that takes its releaseInfo by the rule of the details: only from a first
\* release with a publish timestamp.
EnrichedListItemPublishedOnly(repo, days, aux) ==
  LET activity == Run("fetchCommitActivity", aux.activity).value
      first    == Run("fetchReleases", aux.releases)
      releases == first.value.v
      releaseInfo ==
        IF ~first.threw /\ Len(releases) > 0 /\ Truthy(releases[1].published_at)
        THEN Obj([ latestVersion |-> releases[1].tag_name,
                   releaseDate |-> releases[1].published_at ])
        ELSE Undefined
  IN [ activityStatus |-> classifyActivityStatus(days, repo.archived),
       daysSinceLastUpdate |-> days,
       commitVelocity |-> commitVelocityList(activity.v),
       releaseInfo |-> releaseInfo,
       metrics |-> [ openIssues |-> Len(Run("fetchIssues", aux.issues).value.v),
                     openPRs |-> Len(Run("fetchPullRequests", aux.prs).value.v),
                     totalReleases |-> Len(Run("fetchReleases", aux.releases2).value.v) ] ]
     @@ repo

\* The body of the repos.map callback (lines 340-383) for one repository, given the
\* answers aux to its five requests; days was computed when the callback started.
EnrichedListItem(repo, days, aux) ==
  LET activity == Run("fetchCommitActivity", aux.activity).value
      first    == Run("fetchReleases", aux.releases)
      releases == first.value.v
      releaseInfo ==
        IF ~first.threw /\ Len(releases) > 0
        THEN Obj([ latestVersion |-> releases[1].tag_name,
                   releaseDate |-> Or(releases[1].published_at, releases[1].created_at) ])
        ELSE Undefined
  IN [ activityStatus |-> classifyActivityStatus(days, repo.archived),
       daysSinceLastUpdate |-> days,
       commitVelocity |-> commitVelocityList(activity.v),
       releaseInfo |-> releaseInfo,
       metrics |-> [ openIssues |-> Len(Run("fetchIssues", aux.issues).value.v),
                     openPRs |-> Len(Run("fetchPullRequests", aux.prs).value.v),
                     totalReleases |-> Len(Run("fetchReleases", aux.releases2).value.v) ] ]
     @@ repo

\* Whether the callback rejects: an exception of fetchReleases is caught (lines 352-362),
\* one of the other four calls is not.
ListItemThrew(aux) ==
  \/ Run("fetchCommitActivity", aux.activity).threw
  \/ Run("fetchIssues", aux.issues).threw
  \/ Run("fetchPullRequests", aux.prs).threw
  \/ Run("fetchReleases", aux.releases2).threw

\* The requests the callback issues.
ListItemRequests(aux) ==
  Run("fetchCommitActivity", aux.activity).requests + Run("fetchReleases", aux.releases).requests
    + Run("fetchIssues", aux.issues).requests + Run("fetchPullRequests", aux.prs).requests
    + Run("fetchReleases", aux.releases2).requests

RECURSIVE SumRequests(_, _)
SumRequests(auxs, i) ==
  IF i > Len(auxs) THEN 0 ELSE ListItemRequests(auxs[i]) + SumRequests(auxs, i + 1)

\* new Date(week * 1000).toISOString().split('T')[0]: the UTC calendar day, as its day number
IsoDate(week) == week \div DayUnits

\* An activity graph whose totalCommits counts the 26-week window only.
computeActivityGraphWindowTotal(activity, t) ==
  LET act == IF activity.t = "array" THEN activity.v ELSE <<>>
      last == SliceLast(act, 26)
      commitsLast30 == SumTotals(SelectSeq(act, LAMBDA w : w.week > t - 30 * DayUnits))
      commitsLast90 == SumTotals(SelectSeq(act, LAMBDA w : w.week > t - 90 * DayUnits))
  IN [ weeks |-> [ i \in 1..Len(last) |->
                     [ week |-> i - 1, startDate |-> IsoDate(last[i].week),
                       totalCommits |-> last[i].total, dayBreakdown |-> last[i].days ] ],
       metrics |-> [ totalCommits |-> SumTotals(last),
                     commitsLast30Days |-> commitsLast30,
                     commitsLast90Days |-> commitsLast90,
                     averageCommitsPerMonth |-> MathRound(commitsLast90, 3),
                     longestStreak |-> 0, currentStreak |-> 0, mostActiveDay |-> 0 ] ]

\* computeActivityGraph (lines 276-318) at time t
computeActivityGraph(activity, t) ==
  LET act == IF activity.t = "array" THEN activity.v ELSE <<>>
      last == SliceLast(act, 26)
      commitsLast30 == SumTotals(SelectSeq(act, LAMBDA w : w.week > t - 30 * DayUnits))
      commitsLast90 == SumTotals(SelectSeq(act, LAMBDA w : w.week > t - 90 * DayUnits))
  IN [ weeks |-> [ i \in 1..Len(last) |->
                     [ week |-> i - 1, startDate |-> IsoDate(last[i].week),
                       totalCommits |-> last[i].total, dayBreakdown |-> last[i].days ] ],
       metrics |-> [ totalCommits |-> SumTotals(act),
                     commitsLast30Days |-> commitsLast30,
                     commitsLast90Days |-> commitsLast90,
                     averageCommitsPerMonth |-> MathRound(commitsLast90, 3),
                     longestStreak |-> 0, currentStreak |-> 0, mostActiveDay |-> 0 ] ]

\* The values of the batch of eight (lines 397-406), given the answers a to its requests.
DetailsBatch(a) ==
  [ repo      |-> Run("fetchRepo", a.repo).value,
    readme    |-> Run("fetchReadme", a.readme).value,
    commits   |-> Run("fetchCommits", a.commits).value,
    languages |-> Run("fetchLanguages", a.languages).value,
    activity  |-> Run("fetchCommitActivity", a.activity).value,
    issues    |-> Run("fetchIssues", a.issues).value,
    prs       |-> Run("fetchPullRequests", a.prs).value,
    releases  |-> Run("fetchReleases", a.releases).value ]

DetailsOps ==
  [ repo |-> "fetchRepo", readme |-> "fetchReadme", commits |-> "fetchCommits",
    languages |-> "fetchLanguages", activity |-> "fetchCommitActivity",
    issues |-> "fetchIssues", prs |-> "fetchPullRequests", releases |-> "fetchReleases" ]

\* Promise.all rejects when one of its promises does.
DetailsBatchThrew(a) == \E f \in DOMAIN DetailsOps : Run(DetailsOps[f], a[f]).threw

RECURSIVE SumOver(_, _)
SumOver(f, S) ==
  IF S = {} THEN 0 ELSE LET x == CHOOSE y \in S : TRUE IN f[x] + SumOver(f, S \ {x})

DetailsBatchRequests(a) ==
  SumOver([f \in DOMAIN DetailsOps |-> Run(DetailsOps[f], a[f]).requests], DOMAIN DetailsOps)

\* A bundle that takes its releaseInfo by the rule of the list: from any first release,
\* dated by its publish timestamp or else its creation timestamp.
DetailsBundleCreatedFallback(b, days, activityGraph, stack) ==
  LET releases == b.releases.v
      enrichedRepo ==
        [ activityStatus |-> classifyActivityStatus(days, b.repo.v.archived),
          daysSinceLastUpdate |-> days,
          commitVelocity |-> commitVelocityDetails(b.activity.v),
          stack |-> stack,
          releaseInfo |->
            IF Len(releases) > 0
            THEN Obj([ latestVersion |-> releases[1].tag_name,
                       releaseDate |-> Or(releases[1].published_at, releases[1].created_at) ])
            ELSE Undefined,
          metrics |-> [ openIssues |-> Len(b.issues.v), openPRs |-> Len(b.prs.v),
                        totalReleases |-> Len(releases) ] ]
        @@ b.repo.v
  IN Obj([ repo |-> enrichedRepo, readme |-> b.readme, commits |-> b.commits,
           languages |-> b.languages, activityGraph |-> activityGraph,
           issues |-> Len(b.issues.v), pullRequests |-> Len(b.prs.v),
           releases |-> b.releases, stack |-> stack ])

\* enrichedRepo and details (lines 419-446); b is the batch, w the locals computed after it
DetailsBundle(b, days, activityGraph, stack) ==
  LET releases == b.releases.v
      enrichedRepo ==
        [ activityStatus |-> classifyActivityStatus(days, b.repo.v.archived),
          daysSinceLastUpdate |-> days,
          commitVelocity |-> commitVelocityDetails(b.activity.v),
          stack |-> stack,
          releaseInfo |->
            IF Len(releases) > 0 /\ Truthy(releases[1].published_at)
            THEN Obj([ latestVersion |-> releases[1].tag_name,
                       releaseDate |-> releases[1].published_at ])
            ELSE Undefined,
          metrics |-> [ openIssues |-> Len(b.issues.v), openPRs |-> Len(b.prs.v),
                        totalReleases |-> Len(releases) ] ]
        @@ b.repo.v
  IN Obj([ repo |-> enrichedRepo, readme |-> b.readme, commits |-> b.commits,
           languages |-> b.languages, activityGraph |-> activityGraph,
           issues |-> Len(b.issues.v), pullRequests |-> Len(b.prs.v),
           releases |-> b.releases, stack |-> stack ])

\* The route handler of a repository's details (GET): the HTTP status it answers with.
RepoDetailsRouteStatus(details, threw) ==
  IF threw THEN 500 ELSE IF ~Truthy(details) THEN 404 ELSE 200

\* githubCache.set(...) by call c, whose record has become rec, which then resolves with
\* data (lines 386-387, 448-449).
WriteAndResolveFrom(c, rec, ttlKey, data, issued, answers) ==
  LET key == rec.key
      entry == [data |-> data, timestamp |-> now, ttl |-> TTLs[ttlKey]]
  IN /\ cache' = SetMap(cache, key, ttlKey, data, now)
     /\ unswept' = SetMap(unswept, key, ttlKey, data, now)
     /\ written' = MapSet(written, key, entry)
     /\ sets' = sets + 1
     /\ calls' = [calls EXCEPT ![c] =
          [rec EXCEPT !.pc = "done", !.wrote = TRUE, !.order = sets + 1, !.fin = started,
                      !.doneAt = now, !.requests = @ + issued, !.answers = answers,
                      !.result = data]]

WriteAndResolve(c, ttlKey, data, issued, answers) ==
  WriteAndResolveFrom(c, calls[c], ttlKey, data, issued, answers)

\* Call c, whose record has become rec, resolves with value or rejects, without writing
\* the cache.
ResolveOnlyFrom(c, rec, value, threw, issued, answers) ==
  /\ calls' = [calls EXCEPT ![c] =
       [rec EXCEPT !.pc = "done", !.fin = started, !.doneAt = now, !.threw = threw,
                   !.requests = @ + issued, !.answers = answers, !.result = value]]
  /\ UNCHANGED <<cache, written, unswept, sets>>

ResolveOnly(c, value, threw, issued, answers) ==
  ResolveOnlyFrom(c, calls[c], value, threw, issued, answers)

\* The cache check both operations begin with (lines 331-332, 394-395): a truthy cached
\* value is returned at once, otherwise the call goes on to `miss` after its first requests.
\* A caller calls when it has no call running (ListStart, DetailsStart); the record of
\* its previous call stays until then.
CheckCache(c, op, key, miss, work, requests) ==
  LET cached == GetResult(cache, key, now)
      fresh == [CallIdle EXCEPT !.op = op, !.key = key, !.seen = sets] IN
  /\ started' = started + 1
  /\ cache' = GetMap(cache, key, now)
  /\ unswept' = GetMap(unswept, key, now)
  /\ calls' = [calls EXCEPT ![c] =
       IF cached # None /\ Truthy(cached[1])
       THEN [fresh EXCEPT !.pc = "done", !.hit = TRUE, !.fin = started + 1, !.doneAt = now,
                          !.result = cached[1]]
       ELSE [fresh EXCEPT !.pc = miss, !.work = work, !.requests = requests]]
  /\ UNCHANGED <<now, ticks, sweepDue, sets, lastOp, written, client, pure>>

\* The caller has no call running: none yet, or its last one has resolved (for
\* portfolioMetrics: has returned).
CanCall(c) ==
  \/ calls[c].pc \in {"idle", "returned"}
  \/ calls[c].pc = "done" /\ calls[c].op # "metrics"

\* A cache key made of the owner alone.
ListKeyWithoutFlags(username, excludeArchived, excludeForks) ==
  generateKey(NsList, <<username>>)

\* cacheKey = `${username}:${excludeArchived}:${excludeForks}` under the list namespace
ListKey(username, excludeArchived, excludeForks) ==
  generateKey(NsList, << username \o <<":">> \o BoolStr(excludeArchived) \o <<":">>
                          \o BoolStr(excludeForks) >>)

\* fetchAllReposEnriched(username, excludeArchived, excludeForks) is called (lines 330-334)
ListStart(c, username, excludeArchived, excludeForks) ==
  /\ CanCall(c)
  /\ started < MaxCalls
  /\ CheckCache(c, "list", ListKey(username, excludeArchived, excludeForks), "repos",
                Obj([ username |-> username, excludeArchived |-> excludeArchived,
                      excludeForks |-> excludeForks ]), 1)

\* portfolioMetrics(username) is called (lines 455-456): it calls
\* fetchAllReposEnriched(username, true, true) and awaits it.
PortfolioStart(c, username) ==
  /\ CanCall(c)
  /\ started < MaxCalls
  /\ CheckCache(c, "metrics", ListKey(username, TRUE, TRUE), "repos",
                Obj([username |-> username, excludeArchived |-> TRUE, excludeForks |-> TRUE]), 1)

\* The awaited list has resolved (lines 458-489): the metrics are computed and returned;
\* a rejection of the list would reject portfolioMetrics.
PortfolioReturn(c) ==
  /\ calls[c].op = "metrics"
  /\ calls[c].pc = "done"
  /\ calls' = [calls EXCEPT ![c] =
       [@ EXCEPT !.pc = "returned",
                 !.metrics = IF calls[c].threw THEN [t |-> "null"]
                             ELSE [t |-> "object", v |-> portfolioMetrics(calls[c].result.v, now)]]]
  /\ UNCHANGED <<cacheVars, started, client, pure>>

\* A request that has not been answered yet.
Pending == [kind |-> "pending", status |-> 0, body |-> NoBody]

\* A map callback that skips fetchCommitActivity and starts at its first fetchReleases.
SlotStartAtReleases ==
  [ stage |-> "releases",
    aux |-> [ activity |-> Pending, releases |-> Pending, issues |-> Pending, prs |-> Pending,
              releases2 |-> Pending ] ]

\* One map callback at its first await (line 344): fetchCommitActivity is in flight.
SlotStart ==
  [ stage |-> "activity",
    aux |-> [ activity |-> Pending, releases |-> Pending, issues |-> Pending, prs |-> Pending,
              releases2 |-> Pending ] ]

\* fetchRepos has settled (lines 334-339): the repositories are filtered and the map
\* callback starts for each of them, up to its first await.  With no repository left
\* Promise.all resolves at once and the call writes and returns.
ListReposAnswer(c, ans) ==
  /\ calls[c].pc = "repos"
  /\ LET r == Run("fetchRepos", ans)
         w == calls[c].work.v
         repos == FilterRepos(r.value.v, w.excludeArchived, w.excludeForks)
         items == [i \in 1..Len(repos) |->
                     [repo |-> repos[i], days |-> daysSinceLastUpdate(repos[i], now)]]
     IN IF r.threw THEN ResolveOnly(c, Null, TRUE, 0, <<>>)
        ELSE IF repos = <<>> THEN WriteAndResolve(c, "REPOS", Arr(<<>>), 0, <<>>)
        ELSE /\ calls' = [calls EXCEPT ![c] =
                  [@ EXCEPT !.pc = "enrich", !.work = Arr(items), !.at = now,
                            !.slots = [i \in 1..Len(repos) |-> SlotStart]]]
             /\ UNCHANGED <<cache, written, unswept, sets>>
  /\ UNCHANGED <<now, ticks, sweepDue, lastOp, started, client, pure>>

\* Every map callback has settled (lines 339-387); auxs[i] are the answers to the five
\* requests of the i-th repository, drawn from AuxSet.
ListEnrichJoin(c, AuxSet) ==
  /\ calls[c].pc = "enrich"
  /\ \E auxs \in [1..Len(calls[c].work.v) -> AuxSet] :
       LET items == calls[c].work.v
           enriched == [i \in 1..Len(items) |->
                          EnrichedListItem(items[i].repo, items[i].days, auxs[i])]
           issued == SumRequests(auxs, 1)
       IN IF \E i \in 1..Len(items) : ListItemThrew(auxs[i])
          THEN ResolveOnly(c, Null, TRUE, issued, auxs)
          ELSE WriteAndResolve(c, "REPOS", Arr(enriched), issued, auxs)
  /\ UNCHANGED <<now, ticks, sweepDue, lastOp, started, client, pure>>

(***************************************************************************)
(* The same batch, one await at a time.  Each map callback awaits          *)
(* fetchCommitActivity, then fetchReleases, then the inner Promise.all of  *)
(* fetchIssues, fetchPullRequests and fetchReleases; the callbacks of a    *)
(* batch advance in any order.  The outer Promise.all rejects with the     *)
(* first callback that rejects and resolves when the last one fulfils; the *)
(* continuation of fetchAllReposEnriched runs in the same turn of the      *)
(* event loop.  Callbacks still pending when the batch rejects only issue  *)
(* further requests; nothing reads what they return.                       *)
(***************************************************************************)
SlotAnswers(slots) == [i \in 1..Len(slots) |-> slots[i].aux]

\* The batch assembled in the order in which the callbacks completed.
BatchResultInCompletionOrder(items, slots, settled) ==
  [j \in 1..Len(settled) |->
     EnrichedListItem(items[settled[j]].repo, items[settled[j]].days, slots[settled[j]].aux)]

\* The value Promise.all resolves with (line 339): the callbacks' values by position.
BatchResult(items, slots, settled) ==
  [i \in 1..Len(items) |-> EnrichedListItem(items[i].repo, items[i].days, slots[i].aux)]

\* fetchCommitActivity of the i-th repository has settled (lines 344-348).
EnrichActivityAnswer(c, i, ans) ==
  /\ calls[c].pc = "enrich"
  /\ i \in DOMAIN calls[c].slots
  /\ calls[c].slots[i].stage = "activity"
  /\ LET r == Run("fetchCommitActivity", ans)
         slots == [calls[c].slots EXCEPT ![i] =
                     [ stage |-> IF r.threw THEN "rejected" ELSE "releases",
                       aux |-> [@.aux EXCEPT !.activity = ans] ]]
         rec == [calls[c] EXCEPT !.slots = slots]
     IN IF r.threw
        THEN ResolveOnlyFrom(c, rec, Null, TRUE, r.requests, SlotAnswers(slots))
        ELSE /\ calls' = [calls EXCEPT ![c] = [rec EXCEPT !.requests = @ + r.requests]]
             /\ UNCHANGED <<cache, written, unswept, sets>>
  /\ UNCHANGED <<now, ticks, sweepDue, lastOp, started, client, pure>>

\* The first fetchReleases of the i-th repository has settled (lines 351-362); an
\* exception is caught.
EnrichReleasesAnswer(c, i, ans) ==
  /\ calls[c].pc = "enrich"
  /\ i \in DOMAIN calls[c].slots
  /\ calls[c].slots[i].stage = "releases"
  /\ calls' = [calls EXCEPT ![c] =
       [@ EXCEPT !.slots[i] = [stage |-> "counts", aux |-> [@.aux EXCEPT !.releases = ans]],
                 !.requests = @ + Run("fetchReleases", ans).requests]]
  /\ UNCHANGED <<cache, written, unswept, sets>>
  /\ UNCHANGED <<now, ticks, sweepDue, lastOp, started, client, pure>>

\* The inner Promise.all of the i-th repository has settled (lines 365-383): the
\* callback returns its item.  When it is the last one the batch is written and returned
\* (lines 386-387).
EnrichCountsAnswer(c, i, trio) ==
  /\ calls[c].pc = "enrich"
  /\ i \in DOMAIN calls[c].slots
  /\ calls[c].slots[i].stage = "counts"
  /\ LET aux == [calls[c].slots[i].aux EXCEPT !.issues = trio.issues, !.prs = trio.prs,
                                              !.releases2 = trio.releases2]
         threw == ListItemThrew(aux)
         slots == [calls[c].slots EXCEPT ![i] =
                     [stage |-> IF threw THEN "rejected" ELSE "fulfilled", aux |-> aux]]
         settled == Append(calls[c].settled, i)
         rec == [calls[c] EXCEPT !.slots = slots, !.settled = settled]
         issued == Run("fetchIssues", trio.issues).requests
                     + Run("fetchPullRequests", trio.prs).requests
                     + Run("fetchReleases", trio.releases2).requests
     IN IF threw
        THEN ResolveOnlyFrom(c, rec, Null, TRUE, issued, SlotAnswers(slots))
        ELSE IF \A j \in DOMAIN slots : slots[j].stage = "fulfilled"
        THEN WriteAndResolveFrom(c, rec, "REPOS",
                                 Arr(BatchResult(calls[c].work.v, slots, settled)), issued,
                                 SlotAnswers(slots))
        ELSE /\ calls' = [calls EXCEPT ![c] = [rec EXCEPT !.requests = @ + issued]]
             /\ UNCHANGED <<cache, written, unswept, sets>>
  /\ UNCHANGED <<now, ticks, sweepDue, lastOp, started, client, pure>>

\* fetchRepoDetails(username, repoName) is called (lines 394-406)
DetailsStart(c, username, repoName) ==
  /\ CanCall(c)
  /\ started < MaxCalls
  /\ CheckCache(c, "details", generateKey(NsDetails, <<username, repoName>>), "bundle", Null, 8)

\* A return of null that caches the absence.
ReturnNullCached(c, status, issued) ==
  /\ calls' = [calls EXCEPT ![c] =
       [@ EXCEPT !.pc = "done", !.fin = started, !.doneAt = now, !.lookup = status,
                 !.requests = @ + issued, !.result = [t |-> "null"]]]
  /\ cache' = SetMap(cache, calls[c].key, "REPO_DETAILS", [t |-> "null"], now)
  /\ unswept' = SetMap(unswept, calls[c].key, "REPO_DETAILS", [t |-> "null"], now)
  /\ written' = MapSet(written, calls[c].key,
                       [data |-> [t |-> "null"], timestamp |-> now, ttl |-> TTLs.REPO_DETAILS])
  /\ sets' = sets + 1

\* if (!repo) return null (line 408): nothing is written.
ReturnNull(c, status, issued) ==
  /\ calls' = [calls EXCEPT ![c] =
       [@ EXCEPT !.pc = "done", !.fin = started, !.doneAt = now, !.lookup = status,
                 !.requests = @ + issued, !.result = Null]]
  /\ UNCHANGED <<cache, written, unswept, sets>>

\* The batch of eight has settled (lines 397-412): without a repository the call returns
\* null; otherwise it computes what depends on the clock and asks for package.json.
DetailsJoin(c, a) ==
  /\ calls[c].pc = "bundle"
  /\ LET b == DetailsBatch(a)
         extra == DetailsBatchRequests(a) - 8
         status == IF a.repo.kind = "throw" THEN 0 ELSE a.repo.status
     IN IF DetailsBatchThrew(a)
        THEN /\ calls' = [calls EXCEPT ![c] =
                  [@ EXCEPT !.pc = "done", !.fin = started, !.doneAt = now, !.threw = TRUE,
                            !.lookup = status, !.requests = @ + extra]]
             /\ UNCHANGED <<cache, written, unswept, sets>>
        ELSE IF ~Truthy(b.repo) THEN ReturnNull(c, status, extra)
        ELSE /\ calls' = [calls EXCEPT ![c] =
                  [@ EXCEPT !.pc = "stackPkg", !.lookup = status, !.requests = @ + extra + 1,
                            !.answers = <<a>>, !.at = now,
                            !.work = Obj([ batch |-> b,
                                           days |-> daysSinceLastUpdate(b.repo.v, now),
                                           activityGraph |-> computeActivityGraph(b.activity, now),
                                           stack |-> EmptyStack ])]]
             /\ UNCHANGED <<cache, written, unswept, sets>>
  /\ UNCHANGED <<now, ticks, sweepDue, lastOp, started, client, pure>>

\* detectProjectStack: the request for package.json has settled (lines 228-250)
StackPkgAnswer(c, ans) ==
  /\ calls[c].pc = "stackPkg"
  /\ LET r == Run("fetchFileContent", ans) IN
     IF r.threw
     THEN calls' = [calls EXCEPT ![c] =
            [@ EXCEPT !.pc = "done", !.fin = started, !.doneAt = now, !.threw = TRUE]]
     ELSE calls' = [calls EXCEPT ![c] =
            [@ EXCEPT !.pc = "stackReq", !.requests = @ + 1, !.answers = Append(@, ans),
                      !.work = Obj([calls[c].work.v EXCEPT
                                      !.stack = StackAfterPackageJson(r.value)])]]
  /\ UNCHANGED <<cacheVars, started, client, pure>>

\* A stack detection that asks for package.json again once requirements.txt is answered.
StackReqAnswerStartsOver(c, ans) ==
  /\ calls[c].pc = "stackReq"
  /\ calls' = [calls EXCEPT ![c] = [@ EXCEPT !.pc = "stackPkg", !.requests = 9,
                                               !.answers = <<@[1]>>]]
  /\ UNCHANGED <<cacheVars, started, client, pure>>

\* detectProjectStack: the request for requirements.txt has settled; the bundle is
\* assembled, written to the cache and returned (lines 250-264, 414-449).
StackReqAnswer(c, ans) ==
  /\ calls[c].pc = "stackReq"
  /\ LET r == Run("fetchFileContent", ans)
         w == calls[c].work.v
         stack == StackAfterRequirements(w.stack, r.value)
         answers == Append(calls[c].answers, ans)
     IN IF r.threw THEN ResolveOnly(c, Null, TRUE, 0, answers)
        ELSE WriteAndResolve(c, "REPO_DETAILS",
                             DetailsBundle(w.batch, w.days, w.activityGraph, stack), 0, answers)
  /\ UNCHANGED <<now, ticks, sweepDue, lastOp, started, client, pure>>

(***************************************************************************)
(* Upstream answers the orchestrator is run against.  Successful answers   *)
(* carry bodies of the shape the GitHub API documents for the endpoint.    *)
(***************************************************************************)
Rejected == [kind |-> "throw", status |-> 0, body |-> NoBody]
Failed(status) == [kind |-> "response", status |-> status, body |-> NoBody]
Ok(value) ==
  [kind |-> "response", status |-> 200, body |-> [valid |-> TRUE, value |-> value, text |-> <<>>]]
FileAnswer(f) ==
  [kind |-> "response", status |-> 200,
   body |-> [valid |-> f.valid, value |-> f.value, text |-> f.text]]

\* routes: const username = "dev-asterix"
Owner == <<"d", "e", "v", "-", "a", "s", "t", "e", "r", "i", "x">>
RepoA ==
  [name |-> <<"a">>, archived |-> FALSE, fork |-> FALSE, pushed_at |-> 0, stargazers_count |-> 3,
   language |-> TypeScript, topics |-> << <<"w", "e", "b">> >>]
RepoB ==
  [name |-> <<"b">>, archived |-> TRUE, fork |-> FALSE, pushed_at |-> 0 - 100 * DayUnits,
   stargazers_count |-> 1, language |-> Python, topics |-> << <<"m", "l">>, <<"w", "e", "b">> >>]
RepoC ==
  [name |-> <<"c">>, archived |-> FALSE, fork |-> TRUE, pushed_at |-> 0 - 30 * DayUnits,
   stargazers_count |-> 0, language |-> [t |-> "null"], topics |-> <<>>]
RepoD ==
  [name |-> <<"d">>, archived |-> FALSE, fork |-> FALSE, pushed_at |-> 0 - 60 * DayUnits,
   stargazers_count |-> 7, language |-> Python, topics |-> << <<"m", "l">> >>]

ActivitySample ==
  Arr(<< [week |-> 0 - 7 * DayUnits, total |-> 13, days |-> <<1, 2, 3, 4, 3, 0, 0>>] >>)
ReleasePublished ==
  [tag_name |-> Str(<<"v", "2">>), published_at |-> Str(<<"d", "2">>), created_at |-> Str(<<"d", "1">>)]
ReleaseDraft ==
  [tag_name |-> Str(<<"v", "3">>), published_at |-> Null, created_at |-> Str(<<"d", "3">>)]
ReleasesSample == Arr(<<ReleasePublished, ReleaseDraft>>)
ReleasesDraftFirst == Arr(<<ReleaseDraft, ReleasePublished>>)
IssuesSample == Arr(<<[id |-> 1], [id |-> 2, pull_request |-> TRUE]>>)
PullsSample == Arr(<<[id |-> 2]>>)
CommitsSample == Arr(<<[sha |-> 1]>>)
LanguagesSample == Obj([TypeScript |-> 100])
ReadmeAnswer ==
  [kind |-> "response", status |-> 200,
   body |-> [valid |-> FALSE, value |-> Null, text |-> <<"#">>]]

\* The five requests of one repository all fail, or all succeed.
AuxAllFail ==
  [activity |-> Failed(500), releases |-> Rejected, issues |-> Failed(403), prs |-> Rejected,
   releases2 |-> Failed(500)]
AuxAllOk ==
  [activity |-> Ok(ActivitySample), releases |-> Ok(ReleasesSample), issues |-> Ok(IssuesSample),
   prs |-> Ok(PullsSample), releases2 |-> Ok(ReleasesSample)]
OrchAux == { AuxAllFail, AuxAllOk }

\* Each of the five requests fails or succeeds on its own; the requests that fail are
\* all rejected or all answered with the same error status.
EnrichAux ==
  UNION { [ activity  : { bad, Ok(ActivitySample) },
            releases  : { bad, Ok(ReleasesSample), Ok(ReleasesDraftFirst) },
            issues    : { bad, Ok(IssuesSample) },
            prs       : { bad, Ok(PullsSample) },
            releases2 : { bad, Ok(ReleasesSample) } ] : bad \in { Rejected, Failed(500) } }

OrchListAnswers == { Rejected, Failed(500), Ok(Arr(<<RepoA, RepoB>>)) }
EnrichListAnswers ==
  { Rejected, Failed(500), Ok(Arr(<<>>)), Ok(Arr(<<RepoA, RepoB>>)), Ok(Arr(<<RepoC, RepoA>>)) }

\* The repository lookup is answered 404, 500, not at all, or with the repository.
LookupAnswers == { Failed(404), Failed(500), Rejected, Ok(Obj(RepoA)) }
RestAllFail ==
  [readme |-> Failed(404), commits |-> Rejected, languages |-> Failed(500),
   activity |-> Failed(500), issues |-> Rejected, prs |-> Failed(403), releases |-> Failed(500)]
RestAllOk ==
  [readme |-> ReadmeAnswer, commits |-> Ok(CommitsSample), languages |-> Ok(LanguagesSample),
   activity |-> Ok(ActivitySample), issues |-> Ok(IssuesSample), prs |-> Ok(PullsSample),
   releases |-> Ok(ReleasesDraftFirst)]
DetailsAnswers ==
  { [repo |-> l] @@ r : l \in LookupAnswers, r \in { RestAllFail, RestAllOk } }
OrchDetailsAnswers ==
  { a \in DetailsAnswers : /\ a.repo.kind = "response"
                           /\ (a.repo.status = 200) = (a.readme.status = 200) }

PackageAnswers == { Failed(404), FileAnswer(PackageReactRedis) }
RequirementsAnswers == { Failed(404) }
EnrichFileAnswers == { Rejected, Failed(404), Failed(500) } \cup { FileAnswer(f) : f \in Files }

\* The flags the list route passes: fetchAllReposEnriched('dev-asterix', !includeForks,
\* !includeForks)
RouteFlags == BOOLEAN
RepoNames == { <<"a">> }
OrchClockSteps == { TTLs.REPO_DETAILS }

(***************************************************************************)
(* SpecOrch: two request handlers call the orchestrator concurrently while *)
(* the clock advances and the sweep timer fires.  Cache entries under      *)
(* different keys do not depend on each other (SpecCache exercises several *)
(* keys at once); here the handlers of one behaviour all ask for the same  *)
(* resource, the list under one pair of flags or the details of one        *)
(* repository.                                                             *)
(***************************************************************************)
InitOrch ==
  /\ InitCacheVars
  /\ client = ClientIdle
  /\ InitOrchVars
  /\ pure = PureIdle

\* No call has been made for another key.
SameResource(key) == \A d \in Callers : calls[d].op = "none" \/ calls[d].key = key

NextOrch ==
  \/ \E d \in OrchClockSteps : Tick(d)
  \/ Sweep
  \/ \E c \in Callers, f \in RouteFlags :
       SameResource(ListKey(Owner, f, f)) /\ ListStart(c, Owner, f, f)
  \/ \E c \in Callers, ans \in OrchListAnswers : ListReposAnswer(c, ans)
  \/ \E c \in Callers : ListEnrichJoin(c, OrchAux)
  \/ \E c \in Callers, n \in RepoNames :
       SameResource(generateKey(NsDetails, <<Owner, n>>)) /\ DetailsStart(c, Owner, n)
  \/ \E c \in Callers, a \in OrchDetailsAnswers : DetailsJoin(c, a)
  \/ \E c \in Callers, ans \in PackageAnswers : StackPkgAnswer(c, ans)
  \/ \E c \in Callers, ans \in RequirementsAnswers : StackReqAnswer(c, ans)

SpecOrch == InitOrch /\ [][NextOrch]_vars

(***************************************************************************)
(* SpecEnrich: one caller, one call at a time, every combination of        *)
(* upstream answers.  The caller chooses its request freely while the      *)
(* cache is empty and repeats a request whose result is cached afterwards. *)
(***************************************************************************)
Solo == "c1"
Repeats(key) == cache = <<>> \/ key \in DOMAIN cache

NextEnrich ==
  \/ \E ea \in BOOLEAN, ef \in BOOLEAN :
       Repeats(ListKey(Owner, ea, ef)) /\ ListStart(Solo, Owner, ea, ef)
  \/ \E ans \in EnrichListAnswers : ListReposAnswer(Solo, ans)
  \/ ListEnrichJoin(Solo, EnrichAux)
  \/ \E n \in RepoNames :
       Repeats(generateKey(NsDetails, <<Owner, n>>)) /\ DetailsStart(Solo, Owner, n)
  \/ \E a \in DetailsAnswers : DetailsJoin(Solo, a)
  \/ \E ans \in EnrichFileAnswers : StackPkgAnswer(Solo, ans)
  \/ \E ans \in EnrichFileAnswers : StackReqAnswer(Solo, ans)

SpecEnrich == InitOrch /\ [][NextEnrich]_vars

(***************************************************************************)
(* SpecPortfolio: one caller asks for the lists of two owners under every  *)
(* pair of flags and for their portfolio metrics, one call at a time; the  *)
(* upstream holds other repositories for each owner.  Expiry is left to    *)
(* SpecCache and SpecOrch: the clock stands still here.                    *)
(***************************************************************************)
OtherOwner == <<"o">>
Owners == { Owner, OtherOwner }

\* What the upstream answers to the list request for an owner.
UpstreamLists(username) ==
  IF username = Owner THEN { Ok(Arr(<<RepoA, RepoB, RepoC>>)), Failed(500) }
  ELSE { Ok(Arr(<<RepoD, RepoB>>)) }

\* The answers the list request of call c may get.
UpstreamOf(c) ==
  IF calls[c].pc = "repos" THEN UpstreamLists(calls[c].work.v.username) ELSE {}

\* The auxiliary requests succeed (SpecEnrich varies them).
PortfolioAux == { AuxAllOk }

NextPortfolio ==
  \/ \E o \in Owners, ea \in BOOLEAN, ef \in BOOLEAN : ListStart(Solo, o, ea, ef)
  \/ \E o \in Owners : PortfolioStart(Solo, o)
  \/ \E ans \in UpstreamOf(Solo) : ListReposAnswer(Solo, ans)
  \/ ListEnrichJoin(Solo, PortfolioAux)
  \/ PortfolioReturn(Solo)

SpecPortfolio == InitOrch /\ [][NextPortfolio]_vars

(***************************************************************************)
(* SpecPasses: the list that holds repository a and the details of         *)
(* repository a are asked for by two callers, days apart, while the        *)
(* upstream keeps answering with the same repository record and the same   *)
(* auxiliary samples (one of three sets of them).                          *)
(***************************************************************************)
PassSamples ==
  { [ activity |-> Ok(ActivitySample), releases |-> Ok(ReleasesSample),
      issues |-> Ok(IssuesSample), prs |-> Ok(PullsSample) ],
    [ activity |-> Ok(ActivitySample), releases |-> Ok(ReleasesDraftFirst),
      issues |-> Ok(IssuesSample), prs |-> Ok(PullsSample) ],
    [ activity |-> Failed(500), releases |-> Failed(500), issues |-> Failed(500),
      prs |-> Failed(500) ] }
\* The samples the upstream gave to the call of c that is on record.
PassSamplesOf(c) ==
  IF calls[c].answers = <<>> THEN {}
  ELSE { [f \in {"activity", "releases", "issues", "prs"} |-> calls[c].answers[1][f]] }

\* The upstream answers as it did to the calls on record.
PassSamplesNow ==
  LET seen == UNION { PassSamplesOf(c) : c \in Callers } IN
  IF seen = {} THEN PassSamples ELSE seen
PassAux == { [releases2 |-> smp.releases] @@ smp : smp \in PassSamplesNow }
PassDetails ==
  { [ repo |-> Ok(Obj(RepoA)), readme |-> ReadmeAnswer, commits |-> Ok(CommitsSample),
      languages |-> Ok(LanguagesSample) ] @@ smp : smp \in PassSamplesNow }
PassListAnswers == { Ok(Arr(<<RepoA>>)) }
PassFileAnswers == { Failed(404) }
PassClockSteps == { 30 * DayUnits }

\* No call is running: the passes of one behaviour follow one another.
NoCallRunning == \A d \in Callers : CanCall(d)

NextPasses ==
  \/ \E d \in PassClockSteps : NoCallRunning /\ Tick(d)
  \/ \E c \in Callers : NoCallRunning /\ ListStart(c, Owner, TRUE, TRUE)
  \/ \E c \in Callers, ans \in PassListAnswers : ListReposAnswer(c, ans)
  \/ \E c \in Callers : ListEnrichJoin(c, PassAux)
  \/ \E c \in Callers, n \in RepoNames : NoCallRunning /\ DetailsStart(c, Owner, n)
  \/ \E c \in Callers, a \in PassDetails : DetailsJoin(c, a)
  \/ \E c \in Callers, ans \in PassFileAnswers : StackPkgAnswer(c, ans)
  \/ \E c \in Callers, ans \in PassFileAnswers : StackReqAnswer(c, ans)

SpecPasses == InitOrch /\ [][NextPasses]_vars

(***************************************************************************)
(* SpecBatch: two callers ask for the owner's list without archived        *)
(* repositories and forks; the callbacks of each batch are answered one    *)
(* await at a time, in any order.                                          *)
(***************************************************************************)
BatchUpstream == <<RepoD, RepoB, RepoA>>
BatchListAnswers == { Ok(Arr(BatchUpstream)) }
BatchActivity == { Ok(ActivitySample), Failed(500) }
BatchReleases == { Ok(ReleasesSample) }
BatchCounts ==
  { [issues |-> Ok(IssuesSample), prs |-> Ok(PullsSample), releases2 |-> Ok(ReleasesSample)],
    [issues |-> Failed(403), prs |-> Rejected, releases2 |-> Failed(500)] }
BatchSlots == 1..MaxRepos

NextBatch ==
  \/ \E c \in Callers : ListStart(c, Owner, TRUE, TRUE)
  \/ \E c \in Callers, ans \in BatchListAnswers : ListReposAnswer(c, ans)
  \/ \E c \in Callers, i \in BatchSlots, ans \in BatchActivity : EnrichActivityAnswer(c, i, ans)
  \/ \E c \in Callers, i \in BatchSlots, ans \in BatchReleases : EnrichReleasesAnswer(c, i, ans)
  \/ \E c \in Callers, i \in BatchSlots, trio \in BatchCounts : EnrichCountsAnswer(c, i, trio)

SpecBatch == InitOrch /\ [][NextBatch]_vars

(***************************************************************************)
(* SpecBarrier: fetchRepoDetails, one answer at a time.  The eight calls   *)
(* inside Promise.all (lines 397-406) are made before the await, so all    *)
(* eight requests are in flight when the call first yields; their answers  *)
(* arrive one by one in any order.  Promise.all rejects with the first     *)
(* promise that rejects and resolves once all eight have fulfilled, and    *)
(* only then does the function go on (lines 408-412).  calls[c].work holds *)
(* the answers received so far.                                            *)
(***************************************************************************)
\* The promises of the batch that have settled.
DetailsSettled(rec) == IF rec.work.t = "object" THEN DOMAIN rec.work.v ELSE {}

\* A batch that returns null as soon as the repository lookup resolves to absent.
DetailsSettleReturnsEarly(c, f, ans) ==
  /\ calls[c].op = "details"
  /\ calls[c].pc = "bundle"
  /\ f \notin DetailsSettled(calls[c])
  /\ LET r == Run(DetailsOps[f], ans)
         got == IF calls[c].work.t = "object" THEN (f :> ans) @@ calls[c].work.v ELSE (f :> ans)
     IN IF r.threw THEN ResolveOnly(c, Null, TRUE, r.requests - 1, <<>>)
        ELSE IF f = "repo" /\ ~Truthy(r.value) THEN ReturnNull(c, ans.status, 0)
        ELSE /\ calls' = [calls EXCEPT ![c] =
                  [@ EXCEPT !.work = Obj(got), !.requests = @ + r.requests - 1]]
             /\ UNCHANGED <<cache, written, unswept, sets>>
  /\ UNCHANGED <<now, ticks, sweepDue, lastOp, started, client, pure>>

\* One of the eight requests has been answered and its promise settles (lines 397-406).
DetailsSettle(c, f, ans) ==
  /\ calls[c].op = "details"
  /\ calls[c].pc = "bundle"
  /\ f \notin DetailsSettled(calls[c])
  /\ LET r == Run(DetailsOps[f], ans)
         got == IF calls[c].work.t = "object" THEN (f :> ans) @@ calls[c].work.v ELSE (f :> ans)
     IN IF r.threw THEN ResolveOnly(c, Null, TRUE, r.requests - 1, <<>>)
        ELSE /\ calls' = [calls EXCEPT ![c] =
                  [@ EXCEPT !.work = Obj(got), !.requests = @ + r.requests - 1]]
             /\ UNCHANGED <<cache, written, unswept, sets>>
  /\ UNCHANGED <<now, ticks, sweepDue, lastOp, started, client, pure>>

\* Promise.all has resolved: the function resumes after its await (lines 397, 408-412).
DetailsBarrier(c) ==
  /\ calls[c].op = "details"
  /\ calls[c].pc = "bundle"
  /\ DetailsSettled(calls[c]) = DOMAIN DetailsOps
  /\ DetailsJoin(c, calls[c].work.v)

\* The answers one request of the batch can get.
BarrierAnswers(f) == IF f = "repo" THEN LookupAnswers ELSE { RestAllFail[f], RestAllOk[f] }

NextBarrier ==
  \/ \E n \in RepoNames : DetailsStart(Solo, Owner, n)
  \/ \E f \in DOMAIN DetailsOps : \E ans \in BarrierAnswers(f) : DetailsSettle(Solo, f, ans)
  \/ DetailsBarrier(Solo)
  \/ \E ans \in PackageAnswers : StackPkgAnswer(Solo, ans)
  \/ \E ans \in RequirementsAnswers : StackReqAnswer(Solo, ans)

SpecBarrier == InitOrch /\ [][NextBarrier]_vars

(***************************************************************************)
(* SpecLive: one caller runs the two statistics fetchers, List-enriched,   *)
(* Portfolio-metrics and Repo-details to their end, one operation at a     *)
(* time, every await a step of its own.  An operation yields only at an    *)
(* await of an upstream request (or of the retry timer); once the awaited  *)
(* request settles, the event loop runs the continuation.  The fairness    *)
(* conditions say just that: a request in flight is answered and the       *)
(* continuation that waits for it runs.                                    *)
(***************************************************************************)
LiveAnswers ==
  { Rejected, Failed(500), [kind |-> "response", status |-> 202, body |-> NoBody],
    Ok(ActivitySample) }
LiveLookupAnswers == { Failed(404), Ok(Obj(RepoA)) }
LiveBatchAnswers(f) == IF f = "repo" THEN LiveLookupAnswers ELSE { RestAllOk[f] }

\* The request of the statistics fetcher is answered.
ClientProgress == \E ans \in LiveAnswers : ClientAnswer(ans)

\* A request of the call under way is answered, or its continuation runs.
CallProgress ==
  \/ \E ans \in BatchListAnswers : ListReposAnswer(Solo, ans)
  \/ \E i \in BatchSlots, ans \in BatchActivity : EnrichActivityAnswer(Solo, i, ans)
  \/ \E i \in BatchSlots, ans \in BatchReleases : EnrichReleasesAnswer(Solo, i, ans)
  \/ \E i \in BatchSlots, trio \in BatchCounts : EnrichCountsAnswer(Solo, i, trio)
  \/ PortfolioReturn(Solo)
  \/ \E f \in DOMAIN DetailsOps : \E ans \in LiveBatchAnswers(f) : DetailsSettle(Solo, f, ans)
  \/ DetailsBarrier(Solo)
  \/ \E ans \in PackageAnswers : StackPkgAnswer(Solo, ans)
  \/ \E ans \in RequirementsAnswers : StackReqAnswer(Solo, ans)

\* The states in which CallProgress can take a step: the call awaits an answer (every
\* pc between the cache check and the return) or the list portfolioMetrics awaits has
\* resolved.
CallPending ==
  \/ calls[Solo].pc \in {"repos", "enrich", "bundle", "stackPkg", "stackReq"}
  \/ calls[Solo].op = "metrics" /\ calls[Solo].pc = "done"

NextLive ==
  \/ \E op \in StatsOps : CanCall(Solo) /\ ClientCall(op)
  \/ ClientDone
  \/ client.pc = "idle" /\ ListStart(Solo, Owner, TRUE, TRUE)
  \/ client.pc = "idle" /\ PortfolioStart(Solo, Owner)
  \/ \E n \in RepoNames : client.pc = "idle" /\ DetailsStart(Solo, Owner, n)
  \/ ClientProgress
  \/ CallProgress

\* Weak fairness of CallProgress, with ENABLED <<CallProgress>>_vars written as the
\* state predicate CallPending.
CallFairness == []<>(~CallPending) \/ []<><<CallProgress>>_vars

SpecLive == InitOrch /\ [][NextLive]_vars /\ WF_vars(ClientProgress) /\ CallFairness

(***************************************************************************)
(* SpecGraph: computeActivityGraph applied on its own to activity          *)
(* sequences of up to MaxGraphWeeks weekly samples, and to a missing       *)
(* sequence, at clock values on both sides of the 30-day and 90-day marks. *)
(***************************************************************************)
\* The total of the j-th sample is (j * pattern) % 5.
GraphPatterns == { 1, 2 }
\* Date.now() minus the week start of the last sample.
GraphOffsets ==
  { 0, 2 * DayUnits - 1, 2 * DayUnits, 6 * DayUnits - 1, 6 * DayUnits, 100 * DayUnits }

InitGraph ==
  /\ InitCacheVars
  /\ client = ClientIdle
  /\ InitOrchVars
  /\ \E p \in GraphPatterns : pure = [PureIdle EXCEPT !.pattern = p]

\* The upstream's activity sequence grows by one weekly sample.
GraphAddWeek ==
  /\ Len(pure.activity) < MaxGraphWeeks
  /\ LET j == Len(pure.activity) + 1
         total == (j * pure.pattern) % 5 IN
     pure' = [pure EXCEPT
       !.activity = Append(@, [ week |-> (j - 1) * SecondsPerWeek, total |-> total,
                                days |-> <<total, 0, 0, 0, 0, 0, 0>> ]),
       !.graph = Null, !.graphOf = "none", !.graphAt = 0]
  /\ UNCHANGED <<cacheVars, client, orchVars>>

\* computeActivityGraph is applied to the sequence, or to null, off seconds after the
\* week start of the last sample.
GraphCompute(off, missing) ==
  /\ pure.graphOf = "none"
  /\ LET t == (Len(pure.activity) - 1) * SecondsPerWeek + off
         input == IF missing THEN Null ELSE Arr(pure.activity) IN
     pure' = [pure EXCEPT !.graph = Obj(computeActivityGraph(input, t)),
                          !.graphOf = IF missing THEN "null" ELSE "array",
                          !.graphAt = t]
  /\ UNCHANGED <<cacheVars, client, orchVars>>

NextGraph ==
  \/ GraphAddWeek
  \/ \E off \in GraphOffsets, missing \in BOOLEAN : GraphCompute(off, missing)

SpecGraph == InitGraph /\ [][NextGraph]_vars

(***************************************************************************)
(* Claims about the orchestrator under concurrency (SpecOrch).             *)
(***************************************************************************)
\* Caller c starts a call in this step.
StartStep(c) == started' = started + 1 /\ calls'[c] # calls[c]

\* The call of c has finished after a cache miss.
FinishedMiss(c) == calls[c].pc = "done" /\ ~calls[c].hit

\* The age at which the claim promises a hit: less than 1 hour for the list, at most
\* 30 minutes for the details.
InWindow(op, age) ==
  IF op = "list" THEN age < TTLs.REPOS ELSE age <= TTLs.REPO_DETAILS

(***************************************************************************)
(* C2 as stated: after a List-enriched (Repo-details) call has completed   *)
(* and cached its value, every call with the same arguments started less   *)
(* than 1 hour (within 30 minutes) after that completion issues zero       *)
(* upstream requests and returns the value that completed call cached.     *)
(***************************************************************************)
C2_ReturnsWhatTheCompletedCallCached ==
  [][\A c, d \in Callers :
       ( /\ StartStep(c)
         /\ calls[d].pc = "done" /\ calls[d].wrote
         /\ calls'[c].key = calls[d].key
         /\ InWindow(calls[d].op, now - calls[d].doneAt) )
       => ( /\ calls'[c].hit
            /\ calls'[c].requests = 0
            /\ calls'[c].result = calls[d].result )]_vars

(***************************************************************************)
(* C2, amended: a call started less than 1 hour (List-enriched) or within  *)
(* 30 minutes (Repo-details) after the most recent cache write for its     *)
(* arguments issues zero upstream requests and returns the value of that   *)
(* most recent write.                                                      *)
(***************************************************************************)
C2_ReturnsTheLatestCachedValue ==
  [][\A c \in Callers :
       ( /\ StartStep(c)
         /\ calls'[c].key \in DOMAIN written
         /\ InWindow(calls'[c].op, now - written[calls'[c].key].timestamp) )
       => ( /\ calls'[c].hit
            /\ calls'[c].requests = 0
            /\ calls'[c].pc = "done"
            /\ calls'[c].result = written[calls'[c].key].data )]_vars

\* A call was served from the cache some time after the entry was written, while the
\* record of an earlier writer of the same key shows a different value.
C2_Witness ==
  \E c, d \in Callers :
    /\ calls[c].pc = "done" /\ calls[c].hit /\ calls[c].requests = 0
    /\ calls[c].key \in DOMAIN written
    /\ calls[c].doneAt > written[calls[c].key].timestamp
    /\ calls[c].result = written[calls[c].key].data
    /\ calls[d].pc = "done" /\ calls[d].wrote /\ calls[d].key = calls[c].key
    /\ calls[d].result # calls[c].result

\* The two finished calls missed on the same key.
C3_BothMissed(c, d) ==
  /\ c # d
  /\ FinishedMiss(c) /\ FinishedMiss(d)
  /\ calls[c].key = calls[d].key

\* The entry of the later writer of c and d is the one the cache holds (while it is live).
C3_LaterWriteResident(c, d) ==
  LET w == IF calls[c].order > calls[d].order THEN c ELSE d
      key == calls[w].key
  IN /\ key \in DOMAIN written
     /\ written[key].data = calls[w].result
     /\ written[key].timestamp = calls[w].doneAt
     /\ key \in DOMAIN cache => cache[key] = written[key]
     /\ ~isExpired(written[key], now) => key \in DOMAIN cache

(***************************************************************************)
(* C3 as stated: when two List-enriched (or two Repo-details) calls for    *)
(* the same cache key both miss, each issues its own upstream requests and *)
(* each writes the cache; once both have finished, the resident entry is   *)
(* the one written by the call that wrote later.                           *)
(***************************************************************************)
C3_BothWriteLaterWins ==
  \A c, d \in Callers :
    C3_BothMissed(c, d) =>
      /\ calls[c].requests > 0 /\ calls[d].requests > 0
      /\ calls[c].wrote /\ calls[d].wrote
      /\ C3_LaterWriteResident(c, d)

(***************************************************************************)
(* C3, amended: when two calls for the same cache key both miss, each      *)
(* issues its own upstream requests; each List-enriched call, and each     *)
(* Repo-details call whose lookup yields a repository, writes the cache (a *)
(* Repo-details call whose lookup yields none writes nothing); once both   *)
(* have finished and both have written, the resident entry is the one      *)
(* written by the call that wrote later.                                   *)
(***************************************************************************)
C3_WritersWriteLaterWins ==
  \A c, d \in Callers :
    C3_BothMissed(c, d) =>
      /\ calls[c].requests > 0 /\ calls[d].requests > 0
      /\ \A x \in {c, d} :
           calls[x].wrote <=> (calls[x].op = "list" \/ calls[x].lookup = 200)
      /\ (calls[c].wrote /\ calls[d].wrote) => C3_LaterWriteResident(c, d)

\* Two calls for the same key each started before the other had written; both have
\* written, different values, and the cache holds the later one.
C3_Witness ==
  \E c, d \in Callers :
    /\ C3_BothMissed(c, d)
    /\ calls[c].wrote /\ calls[d].wrote
    /\ calls[c].seen < calls[d].order /\ calls[d].seen < calls[c].order
    /\ calls[c].order < calls[d].order
    /\ calls[c].result # calls[d].result
    /\ calls[c].key \in DOMAIN cache
    /\ cache[calls[c].key].data = calls[d].result

\* Call d was a Repo-details call that missed and returned null, and no call has started
\* since it finished.
C6_LastReturnedNull(d) ==
  /\ FinishedMiss(d)
  /\ calls[d].op = "details"
  /\ ~calls[d].threw
  /\ calls[d].result = Null
  /\ calls[d].fin = started

(***************************************************************************)
(* C6 as stated: Repo-details whose lookup yields no repository returns    *)
(* null and leaves the cache unchanged, so the next Repo-details call for  *)
(* the same (owner, name) contacts the upstream again.                     *)
(***************************************************************************)
C6_NextCallContactsUpstream ==
  [][\A c, d \in Callers :
       (StartStep(c) /\ C6_LastReturnedNull(d) /\ calls'[c].key = calls[d].key)
       => calls'[c].requests > 0]_vars

(***************************************************************************)
(* C6, amended: Repo-details whose lookup yields no repository returns     *)
(* null and leaves the cache unchanged (it writes no entry); the next      *)
(* Repo-details call for the same (owner, name) contacts the upstream      *)
(* again unless another call has meanwhile cached a bundle for (owner,     *)
(* name) that is still live.                                               *)
(***************************************************************************)
C6_NullIsNotCached ==
  [][\A c \in Callers :
       /\ ( calls[c].pc = "bundle" /\ calls'[c].pc # "bundle" /\ calls'[c].lookup # 200 )
          => ( /\ calls'[c].pc = "done"
               /\ ~calls'[c].threw
               /\ calls'[c].result = Null
               /\ ~calls'[c].wrote
               /\ cache' = cache
               /\ written' = written )
       /\ \A d \in Callers :
            ( /\ StartStep(c) /\ C6_LastReturnedNull(d) /\ calls'[c].key = calls[d].key
              /\ (calls[d].key \in DOMAIN cache => isExpired(cache[calls[d].key], now)) )
            => calls'[c].requests > 0]_vars

\* A Repo-details call has returned null after a 404 while nothing is cached under its
\* key, and the caller's next call has not started yet.
C6_Witness ==
  \E d \in Callers :
    /\ C6_LastReturnedNull(d)
    /\ calls[d].lookup = 404
    /\ calls[d].requests = 8
    /\ calls[d].key \notin DOMAIN cache

(***************************************************************************)
(* Claims about one call under every combination of answers (SpecEnrich).  *)
(***************************************************************************)
\* Every one of the five requests of a repository failed.
C7_AllFailed(aux) ==
  \A f \in DOMAIN aux : aux[f].kind = "throw" \/ ~ResOk(aux[f].status)

\* The repositories of an upstream list that survive the flags.
C7_Survivors(list, excludeArchived, excludeForks) ==
  SelectSeq(list, LAMBDA r : (excludeArchived => ~r.archived) /\ (excludeForks => ~r.fork))

\* The locals of the call hold the survivors of one of the upstream's lists.
C7_SurvivorsOfAList(c) ==
  \E ans \in EnrichListAnswers, ea \in BOOLEAN, ef \in BOOLEAN :
    /\ ans.kind = "response" /\ ResOk(ans.status)
    /\ calls[c].key = ListKey(Owner, ea, ef)
    /\ [i \in 1..Len(calls[c].work.v) |-> calls[c].work.v[i].repo]
         = C7_Survivors(ans.body.value.v, ea, ef)

(***************************************************************************)
(* C7: on a List-enriched miss whose repository list has n repositories    *)
(* surviving the filters, the result has exactly n enriched items, one per *)
(* surviving repository and in their order, whatever subset of the         *)
(* auxiliary calls fails; a repository all of whose auxiliary calls fail   *)
(* is present with commitVelocity 0, no releaseInfo and metrics            *)
(* {openIssues 0, openPRs 0, totalReleases 0}; the operation does not      *)
(* raise.                                                                  *)
(***************************************************************************)
C7_PartialFailuresKeepEveryItem ==
  \A c \in Callers :
    (FinishedMiss(c) /\ calls[c].op = "list" /\ calls[c].answers # <<>>) =>
      LET items == calls[c].work.v
          out == calls[c].result IN
      /\ ~calls[c].threw
      /\ C7_SurvivorsOfAList(c)
      /\ out.t = "array"
      /\ Len(out.v) = Len(items)
      /\ \A i \in 1..Len(items) :
           /\ out.v[i].name = items[i].repo.name
           /\ C7_AllFailed(calls[c].answers[i]) =>
                /\ out.v[i].commitVelocity = 0
                /\ out.v[i].releaseInfo = Undefined
                /\ out.v[i].metrics = [openIssues |-> 0, openPRs |-> 0, totalReleases |-> 0]

\* A list of two: every request of the first repository failed, and of the second one
\* only some did; both are in the result.
C7_Witness ==
  LET c == Solo IN
    /\ FinishedMiss(c) /\ calls[c].op = "list"
    /\ Len(calls[c].answers) = 2
    /\ C7_AllFailed(calls[c].answers[1])
    /\ calls[c].answers[2].activity.status = 200
    /\ calls[c].answers[2].issues.kind = "throw"
    /\ Len(calls[c].result.v) = 2
    /\ calls[c].result.v[1].commitVelocity = 0
    /\ calls[c].result.v[2].commitVelocity = 30

\* A Repo-details call that ran its lookup has finished.
C8_LookedUp(c) == FinishedMiss(c) /\ calls[c].op = "details"

(***************************************************************************)
(* C8 as stated: Repo-details returns null only when the upstream answered *)
(* the repository lookup with 404; after a transport failure or another    *)
(* non-success status on the lookup the caller (the route handler) can     *)
(* tell the failure apart from absence.                                    *)
(***************************************************************************)
C8_NullOnlyForNotFound ==
  \A c \in Callers :
    C8_LookedUp(c) =>
      /\ calls[c].result = Null => calls[c].lookup = 404
      /\ calls[c].lookup \notin {200, 404} =>
           RepoDetailsRouteStatus(calls[c].result, calls[c].threw)
             # RepoDetailsRouteStatus(Null, FALSE)

(***************************************************************************)
(* C8, amended: Repo-details returns null whenever the repository lookup   *)
(* yields no repository, be it a 404, another non-success status or a      *)
(* transport failure; it does not raise, and the route handler answers all *)
(* of these alike, as absence (404).                                       *)
(***************************************************************************)
C8_NullForEveryFailedLookup ==
  \A c \in Callers :
    C8_LookedUp(c) =>
      /\ ~calls[c].threw
      /\ calls[c].result = Null <=> calls[c].lookup # 200
      /\ calls[c].lookup # 200 =>
           RepoDetailsRouteStatus(calls[c].result, calls[c].threw) = 404

\* The lookup was answered 500 and the call returned null.
C8_Witness ==
  \E c \in Callers :
    /\ C8_LookedUp(c)
    /\ calls[c].lookup = 500
    /\ calls[c].result = Null

\* The dependency names of a package.json answer that was fetched and parsed.
C11_PackageNames(ans) ==
  IF ans.kind = "response" /\ ResOk(ans.status) /\ ans.body.text # <<>> /\ ans.body.valid
       /\ ans.body.value.t = "object"
  THEN LET pkg == ans.body.value.v IN
       (IF "dependencies" \in DOMAIN pkg
        THEN { pkg.dependencies[i] : i \in 1..Len(pkg.dependencies) } ELSE {})
       \cup (IF "devDependencies" \in DOMAIN pkg
             THEN { pkg.devDependencies[i] : i \in 1..Len(pkg.devDependencies) } ELSE {})
  ELSE {}

\* The raw text of a requirements.txt answer that was fetched.
C11_RequirementsText(ans) ==
  IF ans.kind = "response" /\ ResOk(ans.status) /\ ans.body.text # <<>>
  THEN { ans.body.text } ELSE {}

\* The tags of the table's rows of category cat whose matcher (case-insensitive) matches
\* one of the strings S.
C11_Tags(cat, S) ==
  { STACK_PATTERNS[i].key :
      i \in { j \in 1..Len(STACK_PATTERNS) :
                /\ STACK_PATTERNS[j].category = cat
                /\ \E str \in S, k \in 1..Len(STACK_PATTERNS[j].alts) :
                     Contains(ToLowerCase(str), STACK_PATTERNS[j].alts[k]) } }

(***************************************************************************)
(* C11: stack detection returns, for each category, exactly the tags of    *)
(* the pattern table whose matcher matches the search string of at least   *)
(* one fetched manifest (package.json: the names of dependencies and       *)
(* devDependencies joined; requirements.txt: the lower-cased raw text),    *)
(* each tag once; a package.json whose dependencies are exactly "react"    *)
(* and "redis" yields frameworks = ["react"], databases = ["redis"] and    *)
(* every other category empty.  No alternative of the table contains the   *)
(* blank the names are joined with, so a matcher matches the joined names  *)
(* iff it matches one of the names.                                        *)
(***************************************************************************)
C11_StackHasExactlyTheMatchingTags ==
  \A c \in Callers :
    (FinishedMiss(c) /\ calls[c].op = "details" /\ calls[c].wrote) =>
      LET stack == calls[c].result.v.stack
          S == C11_PackageNames(calls[c].answers[2]) \cup C11_RequirementsText(calls[c].answers[3])
      IN /\ calls[c].result.v.repo.stack = stack
         /\ DOMAIN stack = DOMAIN EmptyStack
         /\ \A cat \in DOMAIN stack :
              /\ { stack[cat][i] : i \in 1..Len(stack[cat]) } = C11_Tags(cat, S)
              /\ Len(stack[cat]) = Cardinality(C11_Tags(cat, S))
         /\ ( /\ C11_PackageNames(calls[c].answers[2]) = { <<"r", "e", "a", "c", "t">>, <<"r", "e", "d", "i", "s">> }
              /\ C11_RequirementsText(calls[c].answers[3]) = {} )
            => stack = [EmptyStack EXCEPT !.frameworks = << <<"r", "e", "a", "c", "t">> >>,
                                          !.databases = << <<"r", "e", "d", "i", "s">> >>]

\* package.json with dependencies next and pg and devDependencies jest and next, and a
\* requirements.txt naming Flask: three categories are filled, frameworks in table order.
C11_Witness ==
  LET c == Solo IN
    /\ FinishedMiss(c) /\ calls[c].op = "details" /\ calls[c].wrote
    /\ calls[c].answers[2] = FileAnswer(PackageNextPg)
    /\ calls[c].answers[3] = FileAnswer(RequirementsFlask)
    /\ calls[c].result.v.stack.frameworks = << <<"n", "e", "x", "t">>, <<"f", "l", "a", "s", "k">> >>
    /\ calls[c].result.v.stack.databases = << <<"p", "o", "s", "t", "g", "r", "e", "s">> >>
    /\ calls[c].result.v.stack.testing = << <<"j", "e", "s", "t">> >>

(***************************************************************************)
(* Claims about lists under several keys and portfolio metrics             *)
(* (SpecPortfolio).                                                        *)
(***************************************************************************)
\* The names of a sequence of repositories.
C13_Names(repos) == [i \in 1..Len(repos) |-> repos[i].name]

\* list is what is left of one of the upstream's snapshots for owner o after excluding
\* the archived (ea) and the forks (ef); a failed list request leaves nothing.
C13_FilteredSnapshot(list, o, ea, ef) ==
  \E ans \in UpstreamLists(o) :
    LET snapshot == IF ans.kind = "response" /\ ResOk(ans.status) THEN ans.body.value.v ELSE <<>>
        kept == { i \in 1..Len(snapshot) :
                    (ea => ~snapshot[i].archived) /\ (ef => ~snapshot[i].fork) }
    IN /\ Len(list) = Cardinality(kept)
       /\ \A i \in kept : \E j \in 1..Len(list) :
            /\ list[j].name = snapshot[i].name
            /\ list[j].archived = snapshot[i].archived
            /\ list[j].fork = snapshot[i].fork

\* Portfolio metrics have been returned to caller c.
C13_Returned(c) == calls[c].op = "metrics" /\ calls[c].pc = "returned" /\ ~calls[c].threw

(***************************************************************************)
(* C13: Portfolio-metrics always derives from the List-enriched result for *)
(* (owner, excludeArchived = true, excludeForks = true): every repository  *)
(* counted in any of its outputs was neither archived nor a fork in the    *)
(* upstream list snapshot that produced the enriched list, and             *)
(* Portfolio-metrics reads and writes no cache key other than the          *)
(* List-enriched key for those flag values.                                *)
(***************************************************************************)
C13_PortfolioDerivesFromTheExcludingList ==
  /\ [](\A c \in Callers :
          /\ calls[c].op = "metrics" => \E o \in Owners : calls[c].key = ListKey(o, TRUE, TRUE)
          /\ C13_Returned(c) =>
               LET list == calls[c].result.v
                   m == calls[c].metrics.v IN
               /\ \A i \in 1..Len(list) : ~list[i].archived /\ ~list[i].fork
               /\ \E o \in Owners :
                    /\ calls[c].key = ListKey(o, TRUE, TRUE)
                    /\ C13_FilteredSnapshot(list, o, TRUE, TRUE)
               /\ m.totalRepos = Len(list)
               /\ m.totalStars = C12_SumFrom(list, "stargazers_count", 1)
               /\ m.totalCommits = 12 * C12_SumFrom(list, "commitVelocity", 1)
               /\ m.activeProjects
                    = Cardinality({ i \in 1..Len(list) : list[i].activityStatus = ACTIVE }))
  /\ [][\A c \in Callers :
          (calls'[c] # calls[c] /\ calls'[c].op = "metrics") =>
            \A k \in (DOMAIN cache \cup DOMAIN cache') \ { calls'[c].key } :
              k \in DOMAIN cache /\ k \in DOMAIN cache' /\ cache'[k] = cache[k]]_vars

\* Metrics over the one repository of the owner that is neither archived nor a fork
\* have been returned while the list with all three is cached as well.
C13_Witness ==
  /\ C13_Returned(Solo)
  /\ calls[Solo].key = ListKey(Owner, TRUE, TRUE)
  /\ calls[Solo].metrics.v.totalRepos = 1
  /\ calls[Solo].metrics.v.totalStars = 3
  /\ calls[Solo].metrics.v.totalCommits = 360
  /\ ListKey(Owner, FALSE, FALSE) \in DOMAIN cache
  /\ Len(cache[ListKey(Owner, FALSE, FALSE)].data.v) = 3

\* Call c has delivered a list.
C18_Delivered(c) ==
  /\ calls[c].op \in {"list", "metrics"}
  /\ calls[c].pc \in {"done", "returned"}
  /\ ~calls[c].threw

(***************************************************************************)
(* C18: the List-enriched cache key includes the owner and both boolean    *)
(* flags: calls that differ in owner, excludeArchived or excludeForks use  *)
(* different cache entries, so a List-enriched call never returns a list   *)
(* that was filtered under flag values other than its own.                 *)
(***************************************************************************)
C18_ListIsFilteredUnderItsOwnFlags ==
  /\ \A o1 \in Owners, o2 \in Owners, ea1 \in BOOLEAN, ea2 \in BOOLEAN, ef1 \in BOOLEAN, ef2 \in BOOLEAN :
       ListKey(o1, ea1, ef1) = ListKey(o2, ea2, ef2) => <<o1, ea1, ef1>> = <<o2, ea2, ef2>>
  /\ \A o \in Owners, ea \in BOOLEAN, ef \in BOOLEAN :
       /\ ListKey(o, ea, ef) \in DOMAIN cache
            => C13_FilteredSnapshot(cache[ListKey(o, ea, ef)].data.v, o, ea, ef)
       /\ \A c \in Callers :
            (C18_Delivered(c) /\ calls[c].key = ListKey(o, ea, ef))
              => C13_FilteredSnapshot(calls[c].result.v, o, ea, ef)

\* A call for (owner, true, true) was served from the cache with the one repository
\* that survives both flags while the unfiltered list of three is cached under the key
\* for (owner, false, false).
C18_Witness ==
  /\ C18_Delivered(Solo)
  /\ calls[Solo].op = "list" /\ calls[Solo].hit
  /\ calls[Solo].key = ListKey(Owner, TRUE, TRUE)
  /\ Len(calls[Solo].result.v) = 1
  /\ ListKey(Owner, FALSE, FALSE) \in DOMAIN cache
  /\ Len(cache[ListKey(Owner, FALSE, FALSE)].data.v) = 3

(***************************************************************************)
(* Claims about enrichment passes over the same inputs (SpecPasses).       *)
(***************************************************************************)
\* The samples of one repository's answers that both operations use.
C14_Samples(a) == [f \in {"activity", "releases", "issues", "prs"} |-> a[f]]

\* The enrichment passes of the call on record for c: for each, the operation, the
\* RepositoryRecord and the auxiliary samples it was given, the clock value it read and
\* the EnrichedRepository it made.  (A list pass asks for the releases twice; it counts
\* when both answers were the same.)
C14_Passes(c) ==
  IF ~(FinishedMiss(c) /\ calls[c].wrote) THEN {}
  ELSE IF calls[c].op = "list"
  THEN { [ op |-> "list", repo |-> calls[c].work.v[i].repo,
           samples |-> C14_Samples(calls[c].answers[i]), at |-> calls[c].at,
           out |-> calls[c].result.v[i] ] :
           i \in { j \in 1..Len(calls[c].result.v) :
                     calls[c].answers[j].releases2 = calls[c].answers[j].releases } }
  ELSE IF calls[c].op = "details"
  THEN { [ op |-> "details", repo |-> calls[c].answers[1].repo.body.value.v,
           samples |-> C14_Samples(calls[c].answers[1]), at |-> calls[c].at,
           out |-> calls[c].result.v.repo ] }
  ELSE {}

C14_AllPasses == UNION { C14_Passes(c) : c \in Callers }

\* The derived fields of an EnrichedRepository.
C14_Derived(e) ==
  [ activityStatus |-> e.activityStatus, daysSinceLastUpdate |-> e.daysSinceLastUpdate,
    commitVelocity |-> e.commitVelocity, releaseInfo |-> e.releaseInfo, metrics |-> e.metrics ]

\* The first release of the samples has no publish timestamp.
C14_FirstReleaseUnpublished(samples) ==
  LET a == samples.releases IN
  /\ a.kind = "response" /\ ResOk(a.status) /\ a.body.valid
  /\ Len(a.body.value.v) > 0
  /\ a.body.value.v[1].published_at = Null

(***************************************************************************)
(* C14 as stated: enrichment is deterministic and idempotent: recomputing  *)
(* the derived fields of an EnrichedRepository (activityStatus,            *)
(* daysSinceLastUpdate, commitVelocity, releaseInfo, metrics) from the     *)
(* same RepositoryRecord and the same auxiliary samples yields a           *)
(* field-for-field identical EnrichedRepository, for any two enrichment    *)
(* passes.                                                                 *)
(***************************************************************************)
C14_SameInputsSameEnrichedRepository ==
  \A p \in C14_AllPasses, q \in C14_AllPasses :
    (p.repo = q.repo /\ p.samples = q.samples) => C14_Derived(p.out) = C14_Derived(q.out)

(***************************************************************************)
(* C14, amended: the derived fields are functions of the RepositoryRecord, *)
(* the auxiliary samples, the clock value the pass reads and the           *)
(* operation.  Any two enrichment passes over the same record and samples  *)
(* agree on commitVelocity and metrics; their daysSinceLastUpdate differ   *)
(* by exactly the time between their clock readings, and each pass's       *)
(* activityStatus is the classification of its own daysSinceLastUpdate, so *)
(* both are identical when the readings are; releaseInfo is identical for  *)
(* two passes of the same operation, and for a List-enriched and a         *)
(* Repo-details pass unless the first release has no publish timestamp     *)
(* (List-enriched then reports its creation timestamp, Repo-details no     *)
(* releaseInfo).                                                           *)
(***************************************************************************)
C14_SameInputsSameClockSameOperation ==
  \A p \in C14_AllPasses, q \in C14_AllPasses :
    (p.repo = q.repo /\ p.samples = q.samples) =>
      /\ p.out.commitVelocity = q.out.commitVelocity
      /\ p.out.metrics = q.out.metrics
      /\ p.out.daysSinceLastUpdate - q.out.daysSinceLastUpdate = p.at - q.at
      /\ p.out.activityStatus =
           (IF p.repo.archived THEN ARCHIVED
            ELSE IF p.out.daysSinceLastUpdate < 30 * DayUnits THEN ACTIVE
            ELSE IF p.out.daysSinceLastUpdate < 90 * DayUnits THEN STABLE
            ELSE DORMANT)
      /\ (p.op = q.op /\ p.at = q.at) => C14_Derived(p.out) = C14_Derived(q.out)
      /\ (p.op = q.op \/ ~C14_FirstReleaseUnpublished(p.samples))
           => p.out.releaseInfo = q.out.releaseInfo
      /\ (p.op = "list" /\ q.op = "details" /\ C14_FirstReleaseUnpublished(p.samples))
           => /\ p.out.releaseInfo.t = "object"
              /\ p.out.releaseInfo.v.releaseDate
                   = p.samples.releases.body.value.v[1].created_at
              /\ q.out.releaseInfo = Undefined

\* A List-enriched pass and, thirty days later, a Repo-details pass over the same record
\* and the same samples, whose first release is unpublished: same velocity and metrics,
\* another daysSinceLastUpdate and activityStatus, and releaseInfo in the list only.
C14_Witness ==
  \E p \in C14_AllPasses, q \in C14_AllPasses :
    /\ p.op = "list" /\ q.op = "details"
    /\ p.repo = q.repo /\ p.samples = q.samples
    /\ C14_FirstReleaseUnpublished(p.samples)
    /\ q.at = p.at + 30 * DayUnits
    /\ p.out.commitVelocity = 30 /\ q.out.commitVelocity = 30
    /\ p.out.activityStatus = ACTIVE /\ q.out.activityStatus = STABLE
    /\ p.out.releaseInfo # q.out.releaseInfo

(***************************************************************************)
(* C15: cache keys are unique per distinct (namespace, ordered argument    *)
(* tuple): two different (namespace, args) never derive the same key, so a *)
(* set or an invalidate of one (namespace, args) never changes what get    *)
(* returns for a different (namespace, args).                              *)
(***************************************************************************)
C15_KeyOf(t) == generateKey(t[1], t[2])

C15_GetUntouched(t) ==
  GetResult(cache', C15_KeyOf(t), now') = GetResult(cache, C15_KeyOf(t), now)

C15_DistinctTargetsNeverInterfere ==
  [][\A s \in CacheTargets, t \in CacheTargets :
       s # t =>
         /\ (\E cat \in CacheCategories : CacheSet(s[1], cat, s[2]))
               => C15_GetUntouched(t)
         /\ CacheInvalidate(s[1], s[2]) => C15_GetUntouched(t)]_vars
(***************************************************************************)
(* C16 as stated: an entry is present iff now - timestamp < ttl; get       *)
(* returns the stored data exactly when now - timestamp < ttl and absent   *)
(* otherwise, in particular at the instant where now - timestamp = ttl.    *)
(***************************************************************************)
C16_GetOfWritten == lastOp.op = "get" /\ lastOp.key \in DOMAIN written

C16_Age == now - written[lastOp.key].timestamp

C16_PresentIffYoungerThanTtl ==
  C16_GetOfWritten =>
    IF C16_Age < written[lastOp.key].ttl
      THEN lastOp.val = Some(written[lastOp.key].data)
      ELSE lastOp.val = None

(***************************************************************************)
(* C16 as the code has it: an entry is present iff now - timestamp <= ttl; *)
(* get returns the stored data exactly when now - timestamp <= ttl and     *)
(* absent otherwise; at the instant where now - timestamp = ttl the entry  *)
(* is still present.                                                       *)
(***************************************************************************)
C16_PresentIffNotOlderThanTtl ==
  C16_GetOfWritten =>
    IF C16_Age <= written[lastOp.key].ttl
      THEN lastOp.val = Some(written[lastOp.key].data)
      ELSE lastOp.val = None

\* A get issued at the instant the entry's age equals its TTL returned the data, and the
\* entry stayed resident.
C16_Witness ==
  /\ C16_GetOfWritten
  /\ C16_Age = written[lastOp.key].ttl
  /\ lastOp.val = Some(written[lastOp.key].data)
  /\ lastOp.key \in DOMAIN cache
(***************************************************************************)
(* C17: the background sweep is not required for correctness.  For every   *)
(* interleaving of set, get, invalidate, clock advances and sweeps, each   *)
(* get returns what it returns in the same run with all sweeps removed     *)
(* (unswept is the map of that run); a sweep removes only entries that get *)
(* already treats as absent and leaves every live entry unchanged.         *)
(***************************************************************************)
C17_SameAnswer(k) == GetResult(cache, k, now) = GetResult(unswept, k, now)

C17_SweepIsNotNeeded ==
  /\ [](\A k \in DOMAIN cache \cup DOMAIN unswept : C17_SameAnswer(k))
  /\ [][ /\ lastOp'.op = "get" =>
             lastOp'.val = GetResult(unswept, lastOp'.key, now)
         /\ Sweep =>
             \A k \in DOMAIN cache :
               /\ k \notin DOMAIN cache' => GetResult(cache, k, now) = None
               /\ GetResult(cache, k, now) # None =>
                    k \in DOMAIN cache' /\ cache'[k] = cache[k] ]_vars

\* A sweep has removed an entry that the sweep-free run still holds, a live entry is
\* still resident, and a get on the live entry has just returned its data.
C17_Witness ==
  /\ DOMAIN unswept \ DOMAIN cache # {}
  /\ lastOp.op = "get"
  /\ lastOp.val # None
  /\ lastOp.key \in DOMAIN cache
(***************************************************************************)
(* C20: cache entries are immutable once written.  At every reachable      *)
(* state the entry resident under a key is exactly what the most recent    *)
(* set on that key wrote: its data, its write time, its category's TTL.  A *)
(* set replaces the whole prior entry; get, getStats and operations on     *)
(* other keys never modify a resident entry, so a read never extends an    *)
(* entry's lifetime.                                                       *)
(***************************************************************************)
C20_SetOn(k) ==
  \E t \in CacheTargets, cat \in CacheCategories :
    /\ generateKey(t[1], t[2]) = k
    /\ CacheSet(t[1], cat, t[2])
    /\ cache'[k] = [data |-> sets + 1, timestamp |-> now, ttl |-> TTLs[cat]]

C20_EntriesAreImmutableOnceWritten ==
  /\ [](\A k \in DOMAIN cache : k \in DOMAIN written /\ cache[k] = written[k])
  /\ [][ /\ \A k \in DOMAIN cache \cap DOMAIN cache' :
               cache'[k] # cache[k] => C20_SetOn(k)
         /\ \A k \in DOMAIN cache' \ DOMAIN cache : C20_SetOn(k) ]_vars

\* A key was written, written again later under the other category, and read after more
\* time had passed: the read returned the second value and the entry still carries
\* the second write's time.
C20_Witness ==
  /\ sets = 2
  /\ lastOp.op = "get"
  /\ lastOp.val = Some(2)
  /\ DOMAIN written = {lastOp.key}
  /\ cache[lastOp.key].timestamp > 0
  /\ cache[lastOp.key].ttl = TTLs.REPOS
  /\ now > cache[lastOp.key].timestamp
(***************************************************************************)
(* C19: a List-enriched batch is cached and returned as one unit.  The     *)
(* cache write happens only after every per-repository enrichment of the   *)
(* batch has settled, so at every reachable state a cached list holds one  *)
(* fully enriched item for each repository that survived filtering, in the *)
(* order of the upstream list, whatever the order in which the             *)
(* per-repository fetches completed; no reader observes a partial batch.   *)
(***************************************************************************)
C19_Survivors == FilterRepos(BatchUpstream, TRUE, TRUE)

C19_EnrichedFields ==
  { "activityStatus", "daysSinceLastUpdate", "commitVelocity", "releaseInfo", "metrics" }

\* One item per surviving repository, in upstream order, each with its enrichment.
C19_WholeBatch(list) ==
  /\ list.t = "array"
  /\ Len(list.v) = Len(C19_Survivors)
  /\ \A i \in 1..Len(list.v) :
       /\ list.v[i].name = C19_Survivors[i].name
       /\ C19_EnrichedFields \subseteq DOMAIN list.v[i]

\* Call c writes the cache in this step.
C19_Writes(c) == calls'[c].wrote /\ ~calls[c].wrote

C19_BatchIsCachedAsOneUnit ==
  /\ [](/\ \A k \in DOMAIN cache : C19_WholeBatch(cache[k].data)
        /\ \A c \in Callers :
             (calls[c].pc = "done" /\ ~calls[c].threw) => C19_WholeBatch(calls[c].result))
  /\ [][ /\ cache' # cache => \E c \in Callers : C19_Writes(c)
         /\ \A c \in Callers :
              C19_Writes(c) =>
                LET items == calls[c].work.v
                    slots == calls'[c].slots IN
                /\ Len(slots) = Len(C19_Survivors)
                /\ \A i \in DOMAIN slots : slots[i].stage = "fulfilled"
                /\ cache'[calls[c].key].data =
                     Arr([i \in 1..Len(items) |->
                            EnrichedListItem(items[i].repo, items[i].days, slots[i].aux)])
                /\ calls'[c].result = cache'[calls[c].key].data ]_vars

\* A batch whose second repository completed before its first, with different answers,
\* has been written in upstream order, and the other caller has read it from the cache.
C19_Witness ==
  \E c \in Callers, d \in Callers :
    /\ c # d
    /\ calls[c].wrote
    /\ calls[c].settled = <<2, 1>>
    /\ calls[c].slots[1].aux # calls[c].slots[2].aux
    /\ calls[d].pc = "done"
    /\ calls[d].hit
    /\ calls[d].result = calls[c].result
    /\ calls[c].key \in DOMAIN cache
    /\ cache[calls[c].key].data = calls[c].result
(***************************************************************************)
(* C21: for an activity sequence of n weekly samples computeActivityGraph  *)
(* emits min(26, n) weeks, week i (zero-based) being sample                *)
(* n - min(26, n) + i with its total and 7-day breakdown; totalCommits is  *)
(* the sum of the totals of all n samples; commitsLast30Days and           *)
(* commitsLast90Days are the sums of the totals of the samples whose week  *)
(* start lies within the last 30 and 90 days from now;                     *)
(* averageCommitsPerMonth = round(commitsLast90Days / 3); hence            *)
(* commitsLast30Days <= commitsLast90Days <= totalCommits.  A missing      *)
(* sequence gives an empty graph with all metrics 0.                       *)
(***************************************************************************)
RECURSIVE C21_SumSince(_, _, _)
\* The totals of the samples of s from index i on whose week start is later than low.
C21_SumSince(s, i, low) ==
  IF i > Len(s) THEN 0
  ELSE (IF s[i].week > low THEN s[i].total ELSE 0) + C21_SumSince(s, i + 1, low)

C21_Window(n) == IF n < 26 THEN n ELSE 26

C21_GraphOfSequence ==
  LET act == pure.activity
      n == Len(act)
      m == C21_Window(n)
      g == pure.graph.v
      c30 == C21_SumSince(act, 1, pure.graphAt - 30 * DayUnits)
      c90 == C21_SumSince(act, 1, pure.graphAt - 90 * DayUnits)
      all == C21_SumSince(act, 1, -1)
  IN /\ Len(g.weeks) = m
     /\ \A i \in 0..(m - 1) :
          /\ g.weeks[i + 1].week = i
          /\ g.weeks[i + 1].totalCommits = act[n - m + i + 1].total
          /\ g.weeks[i + 1].dayBreakdown = act[n - m + i + 1].days
     /\ g.metrics.totalCommits = all
     /\ g.metrics.commitsLast30Days = c30
     /\ g.metrics.commitsLast90Days = c90
     /\ 6 * g.metrics.averageCommitsPerMonth <= 2 * c90 + 3
     /\ 2 * c90 + 3 < 6 * g.metrics.averageCommitsPerMonth + 6
     /\ c30 <= c90 /\ c90 <= all

C21_GraphOfMissing ==
  LET g == pure.graph.v IN
  /\ g.weeks = <<>>
  /\ \A f \in { "totalCommits", "commitsLast30Days", "commitsLast90Days",
                 "averageCommitsPerMonth" } : g.metrics[f] = 0

C21_ActivityGraphIsTheWindowAndTheSums ==
  /\ pure.graphOf = "array" => C21_GraphOfSequence
  /\ pure.graphOf = "null" => C21_GraphOfMissing

\* A graph of more than 26 samples: 26 weeks emitted, commits outside the window counted
\* in totalCommits, and the three sums strictly apart.
C21_Witness ==
  /\ pure.graphOf = "array"
  /\ Len(pure.activity) > 26
  /\ Len(pure.graph.v.weeks) = 26
  /\ pure.activity[1].total > 0
  /\ pure.graph.v.metrics.commitsLast30Days > 0
  /\ pure.graph.v.metrics.commitsLast30Days < pure.graph.v.metrics.commitsLast90Days
  /\ pure.graph.v.metrics.commitsLast90Days < pure.graph.v.metrics.totalCommits
(***************************************************************************)
(* Claims about the order of the detected tags (SpecEnrich).               *)
(***************************************************************************)
\* The row of the pattern table that carries the tag.
C22_Row(tag) == CHOOSE i \in 1..Len(STACK_PATTERNS) : STACK_PATTERNS[i].key = tag

\* The call of c has returned a bundle with a detected stack.
C22_Detected(c) == FinishedMiss(c) /\ calls[c].op = "details" /\ calls[c].wrote

(***************************************************************************)
(* C22 as stated: in every ProjectStack returned by stack detection, for   *)
(* every combination of contents of the two manifests, no category         *)
(* contains the same tag twice and the tags of each category appear in     *)
(* pattern-table iteration order.                                          *)
(***************************************************************************)
C22_UniqueAndInTableOrder ==
  \A c \in Callers :
    C22_Detected(c) =>
      LET stack == calls[c].result.v.stack IN
      \A cat \in DOMAIN stack :
        \A i \in 1..Len(stack[cat]), j \in 1..Len(stack[cat]) :
          i < j => /\ stack[cat][i] # stack[cat][j]
                   /\ C22_Row(stack[cat][i]) < C22_Row(stack[cat][j])

(***************************************************************************)
(* C22 as the code has it: no category contains the same tag twice; the    *)
(* tags found in package.json come first, in pattern-table iteration       *)
(* order, followed by the tags found only in requirements.txt, in          *)
(* pattern-table iteration order.                                          *)
(***************************************************************************)
C22_UniqueAndInTableOrderPerManifest ==
  \A c \in Callers :
    C22_Detected(c) =>
      LET stack == calls[c].result.v.stack IN
      \A cat \in DOMAIN stack :
        LET fromPackage == C11_Tags(cat, C11_PackageNames(calls[c].answers[2])) IN
        \A i \in 1..Len(stack[cat]), j \in 1..Len(stack[cat]) :
          i < j =>
            /\ stack[cat][i] # stack[cat][j]
            /\ \/ stack[cat][i] \in fromPackage /\ stack[cat][j] \notin fromPackage
               \/ /\ (stack[cat][i] \in fromPackage) = (stack[cat][j] \in fromPackage)
                  /\ C22_Row(stack[cat][i]) < C22_Row(stack[cat][j])

\* package.json names react and redis, requirements.txt names redis and pg: redis is
\* held once, and postgres, an earlier row of the table, comes after it.
C22_Witness ==
  LET c == Solo IN
    /\ C22_Detected(c)
    /\ calls[c].answers[2] = FileAnswer(PackageReactRedis)
    /\ calls[c].answers[3] = FileAnswer(RequirementsRedisPg)
    /\ calls[c].result.v.stack.databases =
         << <<"r", "e", "d", "i", "s">>, <<"p", "o", "s", "t", "g", "r", "e", "s">> >>
(***************************************************************************)
(* C23: if package.json is fetched but cannot be parsed, stack detection   *)
(* does not raise, takes no tags from package.json and still evaluates     *)
(* requirements.txt: the result is the result of detection with            *)
(* requirements.txt alone (per category its matching tags, each once, in   *)
(* table order).                                                           *)
(***************************************************************************)
\* The answer is a fetched text that JSON.parse rejects.
C23_Unparsable(ans) ==
  /\ ans.kind = "response" /\ ResOk(ans.status)
  /\ ans.body.text # <<>>
  /\ ~ans.body.valid

\* The call of c has received an unparsable package.json.
C23_GotUnparsable(c) ==
  /\ calls[c].op = "details"
  /\ Len(calls[c].answers) >= 2
  /\ C23_Unparsable(calls[c].answers[2])

C23_RequirementsAlone(stack, ans) ==
  \A cat \in DOMAIN EmptyStack :
    /\ { stack[cat][i] : i \in 1..Len(stack[cat]) } = C11_Tags(cat, C11_RequirementsText(ans))
    /\ \A i \in 1..Len(stack[cat]), j \in 1..Len(stack[cat]) :
         i < j => C22_Row(stack[cat][i]) < C22_Row(stack[cat][j])

C23_UnparsablePackageJsonIsIgnored ==
  \A c \in Callers :
    C23_GotUnparsable(c) =>
      /\ ~calls[c].threw
      /\ calls[c].pc \in {"stackReq", "done"}
      /\ calls[c].pc = "stackReq" => calls[c].work.v.stack = EmptyStack
      /\ calls[c].pc = "done" =>
           /\ calls[c].wrote
           /\ DOMAIN calls[c].result.v.stack = DOMAIN EmptyStack
           /\ C23_RequirementsAlone(calls[c].result.v.stack, calls[c].answers[3])

\* An unparsable package.json that spells react, and a requirements.txt naming Flask:
\* the bundle is returned with flask as its only tag.
C23_Witness ==
  LET c == Solo IN
    /\ C23_GotUnparsable(c)
    /\ calls[c].pc = "done"
    /\ calls[c].answers[2] = FileAnswer(PackageBroken)
    /\ calls[c].answers[3] = FileAnswer(RequirementsFlask)
    /\ calls[c].result.v.stack =
         [EmptyStack EXCEPT !.frameworks = << <<"f", "l", "a", "s", "k">> >>]
(***************************************************************************)
(* Claims about releaseInfo (SpecPasses).                                  *)
(***************************************************************************)
\* The releases list an answer of the upstream amounts to: its body, or nothing when the
\* request failed.
C24_Fetched(ans) ==
  IF ans.kind = "response" /\ ResOk(ans.status) /\ ans.body.valid THEN ans.body.value.v
  ELSE <<>>

\* The release carries a publish timestamp.
C24_Published(release) ==
  release.published_at.t = "string" /\ release.published_at.v # <<>>

(***************************************************************************)
(* C24: in a Repo-details bundle, repo.releaseInfo is present iff the      *)
(* releases list is non-empty and its first release carries a publish      *)
(* timestamp; when present, latestVersion is that release's tag and        *)
(* releaseDate its publish timestamp; metrics.totalReleases and the        *)
(* bundle's releases list reflect the full fetched list either way.        *)
(***************************************************************************)
C24_DetailsReleaseInfo ==
  \A c \in Callers :
    (FinishedMiss(c) /\ calls[c].op = "details" /\ calls[c].wrote) =>
      LET fetched == C24_Fetched(calls[c].answers[1].releases)
          bundle == calls[c].result.v
          info == bundle.repo.releaseInfo
      IN /\ (info # Undefined) <=> (Len(fetched) > 0 /\ C24_Published(fetched[1]))
         /\ info # Undefined =>
              /\ info.v.latestVersion = fetched[1].tag_name
              /\ info.v.releaseDate = fetched[1].published_at
         /\ bundle.repo.metrics.totalReleases = Len(fetched)
         /\ bundle.releases = Arr(fetched)

\* A bundle whose two releases begin with an unpublished one: no releaseInfo, both
\* releases counted and listed.
C24_Witness ==
  \E c \in Callers :
    /\ FinishedMiss(c) /\ calls[c].op = "details" /\ calls[c].wrote
    /\ calls[c].answers[1].releases = Ok(ReleasesDraftFirst)
    /\ calls[c].result.v.repo.releaseInfo = Undefined
    /\ calls[c].result.v.repo.metrics.totalReleases = 2
    /\ Len(calls[c].result.v.releases.v) = 2

(***************************************************************************)
(* C29: List-enriched and Repo-details do not derive releaseInfo by the    *)
(* same rule.  List-enriched sets releaseInfo whenever the releases list   *)
(* is non-empty, taking the first release's publish timestamp or, when     *)
(* that is missing, its creation timestamp; Repo-details omits releaseInfo *)
(* in that case.  For every releases list whose first release has a        *)
(* publish timestamp, and for the empty list, both yield the same          *)
(* releaseInfo.                                                            *)
(***************************************************************************)
C29_ListRule(fetched) ==
  IF Len(fetched) = 0 THEN Undefined
  ELSE Obj([ latestVersion |-> fetched[1].tag_name,
             releaseDate |-> IF C24_Published(fetched[1]) THEN fetched[1].published_at
                             ELSE fetched[1].created_at ])

C29_ReleaseInfoRulesDiffer ==
  \A p \in C14_AllPasses :
    LET fetched == C24_Fetched(p.samples.releases) IN
    /\ p.op = "list" => p.out.releaseInfo = C29_ListRule(fetched)
    /\ p.op = "details" =>
         IF Len(fetched) > 0 /\ ~C24_Published(fetched[1])
         THEN p.out.releaseInfo = Undefined /\ C29_ListRule(fetched) # Undefined
         ELSE p.out.releaseInfo = C29_ListRule(fetched)

\* Over the same releases, beginning with an unpublished one, the list has dated its
\* releaseInfo by the creation timestamp and the details have none.
C29_Witness ==
  \E p \in C14_AllPasses, q \in C14_AllPasses :
    /\ p.op = "list" /\ q.op = "details"
    /\ p.samples = q.samples
    /\ p.samples.releases = Ok(ReleasesDraftFirst)
    /\ p.out.releaseInfo.v.latestVersion = ReleaseDraft.tag_name
    /\ p.out.releaseInfo.v.releaseDate = ReleaseDraft.created_at
    /\ q.out.releaseInfo = Undefined
(***************************************************************************)
(* C30: invalidation touches only its target.  invalidate(namespace, args) *)
(* removes exactly the entry under the derived key and leaves all others   *)
(* unchanged; invalidatePattern(p) removes exactly the entries whose key   *)
(* begins with p, those of other namespaces whose name begins with p       *)
(* included, and leaves all others unchanged; clear() leaves the cache     *)
(* empty.  After any of them a get on a removed key returns absent until   *)
(* the next set on that key.                                               *)
(***************************************************************************)
\* The key string k begins with p.
C30_BeginsWith(k, p) == Len(p) <= Len(k) /\ \A i \in 1..Len(p) : k[i] = p[i]

\* The step removes exactly the resident keys in Gone and leaves the other entries as
\* they were.
C30_RemovesExactly(Gone) ==
  /\ DOMAIN cache' = DOMAIN cache \ Gone
  /\ \A k \in DOMAIN cache' : cache'[k] = cache[k]

\* The step is no set, no read and no advance of the clock: what every step of
\* invalidate, invalidatePattern and clear is.
C30_NoSetNoRead == sets' = sets /\ now' = now /\ lastOp' = NoOp

C30_InvalidationTouchesOnlyItsTarget ==
  /\ []((lastOp.op = "get" /\ lastOp.key \notin DOMAIN written) => lastOp.val = None)
  /\ [][ C30_NoSetNoRead =>
           /\ \A t \in CacheTargets :
                CacheInvalidate(t[1], t[2]) => C30_RemovesExactly({generateKey(t[1], t[2])})
           /\ \A p \in CachePatterns :
                CacheInvalidatePattern(p) =>
                  C30_RemovesExactly({k \in DOMAIN cache : C30_BeginsWith(k, p)})
           /\ CacheClear => cache' = <<>> ]_vars

\* Two keys were set; with no time passed one of them is gone and a get on it has
\* returned absent, while the other entry is still what was written.
C30_Witness ==
  /\ sets = 2
  /\ now = 0
  /\ lastOp.op = "get"
  /\ lastOp.val = None
  /\ lastOp.key = generateKey(<<"r", "d">>, << <<"x">> >>)
  /\ DOMAIN cache = {generateKey(<<"r">>, << <<"x">>, <<"y">> >>)}
  /\ cache = written

\* The list fetch failed: a transport error or a status outside 200-299.
C27_ListFailed(ans) == ans.kind = "throw" \/ ~ResOk(ans.status)

\* The entry a List-enriched call writes at this step for its value.
C27_Cached(c) ==
  /\ calls'[c].wrote
  /\ calls'[c].key \in DOMAIN cache'
  /\ cache'[calls'[c].key] =
       [data |-> calls'[c].result, timestamp |-> now, ttl |-> 60 * 60]

\* What a list item holds of a repository whose five auxiliary requests all failed.
C27_NeutralDefaults(item) ==
  /\ item.commitVelocity = 0
  /\ item.releaseInfo = Undefined
  /\ item.metrics = [openIssues |-> 0, openPRs |-> 0, totalReleases |-> 0]

\* A failed list fetch is cached as the empty list, and a batch whose auxiliary requests
\* failed is cached with its neutral defaults, both for one hour.
C27_FailuresAreCached ==
  /\ \A c \in Callers, ans \in OrchListAnswers :
       (ListReposAnswer(c, ans) /\ C27_ListFailed(ans))
         => (calls'[c].pc = "done" /\ calls'[c].result = Arr(<<>>) /\ C27_Cached(c))
  /\ \A c \in Callers :
       (ListEnrichJoin(c, {AuxAllFail}))
         => ( /\ calls'[c].pc = "done" /\ C27_Cached(c)
              /\ \A i \in DOMAIN calls'[c].result.v : C27_NeutralDefaults(calls'[c].result.v[i]) )

\* The entry written for the key is at most one hour old.
C27_Unexpired(key) == key \in DOMAIN written /\ now - written[key].timestamp <= TTLs.REPOS

(***************************************************************************)
(* C27 as stated: List-enriched caches failures like successes.  A failed  *)
(* list fetch writes the empty list with the 1-hour TTL and the neutral    *)
(* defaults of failed auxiliary calls are written the same way; every call *)
(* with the same key started while that entry has not expired issues no    *)
(* upstream request and returns the value that failed call cached.         *)
(***************************************************************************)
C27_FailuresCachedAndServedBack ==
  [][ /\ C27_FailuresAreCached
      /\ \A c, d \in Callers :
           ( /\ StartStep(c)
             /\ calls[d].op = "list" /\ calls[d].pc = "done" /\ calls[d].wrote
             /\ calls[d].result = Arr(<<>>)
             /\ calls'[c].key = calls[d].key
             /\ now - calls[d].doneAt <= TTLs.REPOS )
           => ( /\ calls'[c].hit
                /\ calls'[c].requests = 0
                /\ calls'[c].result = calls[d].result ) ]_vars

(***************************************************************************)
(* C27, amended: List-enriched caches failures like successes.  A failed   *)
(* list fetch writes the empty list with the 1-hour TTL and the neutral    *)
(* defaults of failed auxiliary calls are written the same way; every call *)
(* with the same key started while the entry has not expired issues no     *)
(* upstream request and returns the value most recently written under that *)
(* key, which a concurrent call that missed earlier may have replaced.     *)
(***************************************************************************)
C27_FailuresCachedAndLatestServedBack ==
  [][ /\ C27_FailuresAreCached
      /\ \A c \in Callers :
           (StartStep(c) /\ calls'[c].op = "list" /\ C27_Unexpired(calls'[c].key))
           => ( /\ calls'[c].hit
                /\ calls'[c].requests = 0
                /\ calls'[c].result = written[calls'[c].key].data ) ]_vars

\* A call whose list fetch failed cached the empty list, and a later call with the same
\* key was served that empty list from the cache without a request.
C27_Witness ==
  \E c, d \in Callers :
    /\ c # d
    /\ calls[d].op = "list" /\ calls[d].pc = "done" /\ calls[d].wrote
    /\ calls[d].result = Arr(<<>>) /\ calls[d].requests = 1
    /\ calls[c].op = "list" /\ calls[c].pc = "done" /\ calls[c].hit
    /\ calls[c].key = calls[d].key /\ calls[c].requests = 0
    /\ calls[c].result = Arr(<<>>)
    /\ now > calls[d].doneAt

\* The repositories of an upstream list that survive both filters.
C28_Surviving(ans) ==
  Cardinality({i \in DOMAIN ans.body.value.v :
                 ~ans.body.value.v[i].archived /\ ~ans.body.value.v[i].fork})

\* The requests answered when a callback passes from one stage to the next.
C28_StageRequests(from, to) ==
  IF from = "activity" /\ to = "releases" THEN 1
  ELSE IF from = "releases" /\ to = "counts" THEN 1
  ELSE IF from = "counts" /\ to = "fulfilled" THEN 3
  ELSE 0 - 1

\* The callbacks of call c that change stage in this step.
C28_Moved(c) == {i \in DOMAIN calls[c].slots : calls'[c].slots[i].stage # calls[c].slots[i].stage}

(***************************************************************************)
(* C28: a List-enriched miss with n repositories surviving the filters     *)
(* issues exactly 1 + 5n upstream requests: the list fetch and, for each   *)
(* repository, the commit-activity fetch, then the releases fetch, then    *)
(* the issues, pull-requests and second releases fetches together.  The    *)
(* stages of one repository follow one another in that order; those of     *)
(* different repositories advance in any order.                            *)
(***************************************************************************)
C28_OnePlusFivePerRepository ==
  /\ [](\A c \in Callers :
          (calls[c].op = "list" /\ calls[c].pc = "done" /\ ~calls[c].hit)
            => ( /\ calls[c].requests = 1 + 5 * Len(calls[c].slots)
                 /\ \A i \in DOMAIN calls[c].slots : calls[c].slots[i].stage = "fulfilled" ))
  /\ [][\A c \in Callers :
          /\ \A ans \in BatchListAnswers :
               ListReposAnswer(c, ans) =>
                 ( /\ calls[c].requests = 1
                   /\ Len(calls'[c].slots) = C28_Surviving(ans)
                   /\ \A i \in DOMAIN calls'[c].slots : calls'[c].slots[i].stage = "activity" )
          /\ (calls[c].pc = "enrich" /\ calls'[c] # calls[c]) =>
               ( /\ DOMAIN calls'[c].slots = DOMAIN calls[c].slots
                 /\ \E i \in DOMAIN calls[c].slots :
                      /\ C28_Moved(c) = {i}
                      /\ calls'[c].requests - calls[c].requests =
                           C28_StageRequests(calls[c].slots[i].stage, calls'[c].slots[i].stage) )
        ]_vars

\* A miss over two surviving repositories has finished with 11 requests, the second
\* repository having gone through its three stages before the first finished.
C28_Witness ==
  \E c \in Callers :
    /\ calls[c].op = "list" /\ calls[c].pc = "done" /\ ~calls[c].hit /\ calls[c].wrote
    /\ Len(calls[c].slots) = 2
    /\ calls[c].requests = 11
    /\ calls[c].settled = <<2, 1>>

\* Call c is a Repo-details call that missed the cache.
C26_Miss(c) == calls[c].op = "details" /\ ~calls[c].hit

\* The repository lookup of call c has been answered: the repository is absent.
C26_LookupAbsent(c) ==
  /\ "repo" \in DetailsSettled(calls[c])
  /\ ~Truthy(Run("fetchRepo", calls[c].work.v.repo).value)

(***************************************************************************)
(* C26: on a Repo-details miss the eight primary requests are all issued   *)
(* before anything is awaited, and the call stays at its barrier, with     *)
(* nothing computed, written or returned, until all eight have settled,    *)
(* also when the repository lookup has already resolved to absent.  The    *)
(* request for package.json is issued only after the barrier and only for  *)
(* an existing repository, the request for requirements.txt only after     *)
(* package.json has been answered; a call for an absent repository ends    *)
(* with the eight requests alone.                                          *)
(***************************************************************************)
C26_EightThenBarrierThenManifests ==
  /\ [](\A c \in Callers : C26_Miss(c) =>
          /\ calls[c].pc = "bundle" =>
               (calls[c].requests = 8 /\ calls[c].result = Null /\ ~calls[c].wrote)
          /\ calls[c].pc = "stackPkg" =>
               (calls[c].requests = 9 /\ Truthy(calls[c].work.v.batch.repo))
          /\ calls[c].pc = "stackReq" => calls[c].requests = 10
          /\ calls[c].pc = "done" =>
               IF calls[c].wrote THEN calls[c].requests = 10
               ELSE calls[c].requests = 8 /\ calls[c].result = Null /\ C26_LookupAbsent(c))
  /\ [][\A c \in Callers :
          /\ (C26_Miss(c) /\ calls[c].pc = "bundle" /\ calls'[c].pc # "bundle")
               => ( /\ DetailsSettled(calls[c]) = DOMAIN DetailsOps
                    /\ calls'[c].pc \in {"stackPkg", "done"}
                    /\ calls'[c].pc = "stackPkg" <=> ~C26_LookupAbsent(c) )
          /\ (C26_Miss(c) /\ calls[c].pc = "bundle" /\ calls'[c].pc = "bundle")
               => (cache' = cache /\ sets' = sets)
          /\ (calls[c].pc = "stackPkg" /\ calls'[c] # calls[c]) => calls'[c].pc = "stackReq"
          /\ (calls[c].pc = "stackReq" /\ calls'[c] # calls[c]) => calls'[c].pc = "done"
        ]_vars

\* The lookup has answered 404 and is the only one of the eight that has settled: the
\* call has issued its eight requests and still waits, with nothing returned.
C26_Witness ==
  \E c \in Callers :
    /\ C26_Miss(c) /\ calls[c].pc = "bundle"
    /\ DetailsSettled(calls[c]) = {"repo"}
    /\ calls[c].work.v.repo = Failed(404)
    /\ calls[c].requests = 8
    /\ calls[c].result = Null
    /\ cache = <<>>

\* Call c is under way: it has been made and has not returned yet.
C25_Running(c) ==
  \/ calls[c].pc \notin {"idle", "done", "returned"}
  \/ calls[c].op = "metrics" /\ calls[c].pc = "done"

\* Call c has returned a value to its caller.
C25_Returned(c) ==
  /\ ~calls[c].threw
  /\ \/ calls[c].op \in {"list", "details"} /\ calls[c].pc = "done"
     \/ calls[c].op = "metrics" /\ calls[c].pc = "returned" /\ calls[c].metrics.t = "object"

(***************************************************************************)
(* C25: every orchestration operation runs to completion.  An invocation   *)
(* of fetchCommitActivity or fetchCodeFrequency issues at most 4 upstream  *)
(* requests whatever the upstream answers, and ends once its requests are  *)
(* answered; provided every upstream request eventually settles, every    *)
(* List-enriched, Repo-details and Portfolio-metrics call eventually       *)
(* returns a value.                                                        *)
(***************************************************************************)
C25_EveryOperationCompletes ==
  /\ [](client.op \in StatsOps =>
          (client.requests <= 1 + DefaultRetries /\ Len(client.answers) <= client.requests))
  /\ (client.pc = "inflight") ~> (client.pc = "done" /\ ~client.threw)
  /\ \A c \in Callers : C25_Running(c) ~> C25_Returned(c)

\* The caller has had a statistics fetch answered 202 and then completed List-enriched,
\* Repo-details and Portfolio-metrics: the metrics have been returned.
C25_Witness ==
  /\ started = 3
  /\ calls[Solo].op = "metrics" /\ calls[Solo].pc = "returned"
  /\ calls[Solo].metrics.t = "object"
  /\ DOMAIN written = { ListKey(Owner, TRUE, TRUE), generateKey(NsDetails, <<Owner, <<"a">> >>) }
  /\ client.pc = "done" /\ client.op \in StatsOps
  /\ client.answers = << [kind |-> "response", status |-> 202, body |-> NoBody] >>
====
